---- MODULE Spec2Model ----
(***************************************************************************)
(* State-machine model of the D2D sales-coach server (the Express app with *)
(* the PostgreSQL knowledge base): the process-wide conversation history,  *)
(* the knowledge-base cache, the knowledge_files table and the request     *)
(* handlers, each split at its await points.                               *)
(***************************************************************************)
EXTENDS Integers, Sequences, FiniteSets, TLC

\* ---------------------------------------------------------------- bounds
\* number of HTTP requests in one behaviour
MaxReq == 3
\* number of clock advances in one behaviour
MaxTicks == 2
\* number of stored sessions the aggregate view starts from
MaxSessions == 6

\* ------------------------------------------------------ program constants
\* cache time-to-live in ms: (now - knowledgeCacheTime) < 60_000
TTL == 60000
\* f.content.slice(0, 3000)
PromptSliceLen == 3000
\* LEFT(content, 120)
PreviewLen == 120

\* one clock advance (Date.now() moves by half a TTL)
TickMs == TTL \div 2

\* ------------------------------------------------------------- JS values
\* A string is a tuple of one-character strings.
Undefined == [t |-> "undefined"]
Null == [t |-> "null"]
Str(s) == [t |-> "string", s |-> s]
\* a number (the non-negative integers are all that is used)
Num(n) == [t |-> "num", v |-> n]
\* an object: its members <<key, value>> in insertion order
Obj(members) == [t |-> "obj", members |-> members]

\* the whitespace of trim, of \s and of JSON, among the characters used here
IsSpace(c) == c \in {" ", "\n"}

RECURSIVE TrimStart(_)
TrimStart(s) == IF s # <<>> /\ IsSpace(Head(s)) THEN TrimStart(Tail(s)) ELSE s

RECURSIVE TrimEnd(_)
TrimEnd(s) ==
    IF s # <<>> /\ IsSpace(s[Len(s)]) THEN TrimEnd(SubSeq(s, 1, Len(s) - 1)) ELSE s

\* String.prototype.trim
trim(s) == TrimEnd(TrimStart(s))

\* !v for the values a JSON body field takes here: undefined, null, "" and 0
\* are falsy
Falsy(v) ==
    \/ v.t = "undefined"
    \/ v.t = "null"
    \/ (v.t = "string" /\ v.s = <<>>)
    \/ (v.t = "num" /\ v.v = 0)

\* ------------------------------------------------------------- variables
VARIABLES
    conversationHistory,   \* let conversationHistory = []
    knowledgeCache,        \* let knowledgeCache = null
    knowledgeCacheTime,    \* let knowledgeCacheTime = 0
    store,                 \* rows of table knowledge_files, by uploaded_at
    nextId,                \* the SERIAL sequence of knowledge_files.id
    sessions,              \* rows of table sessions, by created_at
    nextSessionId,         \* the SERIAL sequence of sessions.id
    clock,                 \* Date.now()
    req,                   \* the requests: kind, position, locals, response
    turnBy,                \* history: which request pushed each turn
    nextSid,               \* history: identity of the next result.rows array
    storeVer,              \* history: number of committed writes to the table
    cachePopulatedAt,      \* history: clock when knowledgeCache was last assigned rows
    lastPop,               \* history: the call that last populated the cache
    prevCall,              \* history: the getKnowledgeBase call that returned last
    mutPending             \* history: last completed add/delete not yet followed by a call

vars == << conversationHistory, knowledgeCache, knowledgeCacheTime, store, nextId,
           sessions, nextSessionId, clock, req, turnBy, nextSid, storeVer,
           cachePopulatedAt, lastPop, prevCall, mutPending >>

Req == 1 .. MaxReq
NoResp == [status |-> 0]
NoCall == [t |-> "none"]
None == [t |-> "none"]

\* a request slot before its request arrives
IdleReq ==
    [ kind |-> "none", pc |-> "idle", arg |-> None, now |-> 0, db |-> None,
      call |-> None, files |-> None, kbReads |-> 0, modelCalls |-> 0,
      resp |-> NoResp, resets |-> 0, overlapped |-> FALSE, mustReflect |-> None,
      modelOk |-> FALSE ]

\* ------------------------------------------------------------ the inputs
\* req.body.message of POST /chat
ChatMessages ==
    { Undefined, Str(<<>>), Str(<<" ">>), Str(<<"a">>), Str(<<" ", "a">>) }
\* the chat messages used where only the knowledge base is looked at
KnowledgeChatMessages == { Str(<<"a">>) }
\* the uploads used where only the knowledge base is looked at
KnowledgeAdds == { <<Str(<<"f">>), Str(<<"x">>)>> }
\* response.content[0].text of the chat model call
ChatTexts == { Str(<<"r">>) }
\* response.content[0].text of the scorecard model call
ScorecardTexts == { Str(<<"s">>) }
\* response.content[0].text of the analyze model call: a plain object,
\* text without JSON, a fenced object
AnalyzeTexts ==
    { <<"{", "}">>, <<"p">>,
      <<"~", "~", "~", "{", "}", "~", "~", "~">> }
\* req.body.filename and req.body.content of POST /knowledge-file
AddFilenames == { Undefined, Str(<<"f">>), Str(<<" ">>) }
AddContents == { Str(<<>>), Str(<<"x">>) }
\* req.params.id of DELETE /knowledge-file/:id
DeleteIds == { 1, 2 }

\* ------------------------------------------------------------- responses
\* res.json(body)
Ok(body) == [status |-> 200, body |-> body]
\* an error path that sends nothing
ErrSilent(code, msg) == [status |-> 0]

\* res.status(code).json({ error })
Err(code, msg) == [status |-> code, body |-> [error |-> msg]]

\* -------------------------------------------------------- pure functions
\* a slice that keeps the whole string
SliceAll(s, n) == s

\* array.join(sep) over tuples of text fragments
RECURSIVE Join(_, _)
Join(parts, sep) ==
    IF parts = <<>> THEN <<>>
    ELSE IF Len(parts) = 1 THEN parts[1]
    ELSE parts[1] \o sep \o Join(Tail(parts), sep)

\* String.prototype.slice(0, n)
Slice0(s, n) == SubSeq(s, 1, IF Len(s) < n THEN Len(s) ELSE n)

\* the test of /chat without its trim
ChatRejectsUntrimmed(message) == Falsy(message)

\* the test of /chat: !message || !message.trim()
ChatRejects(message) == Falsy(message) \/ Falsy(Str(trim(message.s)))

\* the freshness test with the age compared to 60 instead of 60_000
CacheFreshSeconds(now) == knowledgeCache # Null /\ (now - knowledgeCacheTime) < 60

\* the freshness test with <= for <
CacheFreshInclusive(now) == knowledgeCache # Null /\ (now - knowledgeCacheTime) <= TTL

\* the test of getKnowledgeBase: knowledgeCache && (now - knowledgeCacheTime) < 60_000
CacheFresh(now) == knowledgeCache # Null /\ (now - knowledgeCacheTime) < TTL

\* buildSystemPrompt, given the files getKnowledgeBase returned
buildSystemPrompt(files) ==
    IF Len(files) = 0 THEN <<"BASE_SYSTEM_PROMPT">>
    ELSE <<"BASE_SYSTEM_PROMPT", "\n\n", "[TRAINING MATERIALS]", "\n">> \o
         Join([i \in 1 .. Len(files) |->
                  <<"--- ">> \o files[i].filename \o <<" ---", "\n">> \o
                  Slice0(files[i].content, PromptSliceLen)],
              <<"\n\n">>)

\* conversationText of /scorecard and /analyze
renderForScoring(h) ==
    Join([i \in 1 .. Len(h) |->
             <<IF h[i].role = "user" THEN "SALES REP" ELSE "HOMEOWNER/COACH", ": ">>
             \o h[i].content.s],
         <<"\n\n">>)

\* the gate of /scorecard and /analyze never closing
HistoryEmptyNever(h) == FALSE

\* the gate of /scorecard and /analyze: conversationHistory.length === 0
HistoryEmpty(h) == Len(h) = 0

\* a push of the trimmed message
PushRepTrimmed(h, message) == Append(h, [role |-> "user", content |-> Str(trim(message.s))])

\* conversationHistory.push({ role: 'user', content: message })
PushRep(h, message) == Append(h, [role |-> "user", content |-> message])

\* a reply stored under the role of the Rep
PushHomeownerAsRep(h, text) == Append(h, [role |-> "user", content |-> text])

\* conversationHistory.push({ role: 'assistant', content: assistantMessage })
PushHomeowner(h, text) == Append(h, [role |-> "assistant", content |-> text])

\* SELECT filename, content FROM knowledge_files ORDER BY uploaded_at
SelectForPrompt(table) ==
    [i \in 1 .. Len(table) |->
        [filename |-> table[i].filename, content |-> table[i].content]]

\* a DELETE without its WHERE clause
DeleteRowAll(table, id) == <<>>

\* DELETE FROM knowledge_files WHERE id = $1
RECURSIVE DeleteRow(_, _)
DeleteRow(table, id) ==
    IF table = <<>> THEN <<>>
    ELSE IF Head(table).id = id THEN DeleteRow(Tail(table), id)
    ELSE <<Head(table)>> \o DeleteRow(Tail(table), id)

\* ------------------------------------------------- JSON.parse (a subset)
\* The JSON texts built from whitespace, non-negative integers, null,
\* double-quoted strings without escapes, and objects; a parsed object is
\* its list of <<key, value>> members in first-occurrence order, a later
\* duplicate key replacing the earlier value.
ParseFail == [ok |-> FALSE]
ParsedAs(val, rest) == [ok |-> TRUE, val |-> val, rest |-> rest]

\* index of the first c in s, 0 when there is none
RECURSIVE IndexOf(_, _)
IndexOf(s, c) ==
    IF s = <<>> THEN 0
    ELSE IF Head(s) = c THEN 1
    ELSE LET i == IndexOf(Tail(s), c) IN IF i = 0 THEN 0 ELSE i + 1

\* index of the last c in s, 0 when there is none
RECURSIVE LastIndexOf(_, _)
LastIndexOf(s, c) ==
    IF s = <<>> THEN 0
    ELSE IF s[Len(s)] = c THEN Len(s)
    ELSE LastIndexOf(SubSeq(s, 1, Len(s) - 1), c)

\* number of leading whitespace characters
WsRun(s) == Len(s) - Len(TrimStart(s))

DigitChars == <<"0", "1", "2", "3", "4", "5", "6", "7", "8", "9">>

\* number of leading digits
RECURSIVE DigitRun(_)
DigitRun(s) ==
    IF s # <<>> /\ (\E d \in 1 .. 10 : DigitChars[d] = Head(s))
    THEN 1 + DigitRun(Tail(s)) ELSE 0

\* the value of a run of digits
RECURSIVE DigitsValue(_)
DigitsValue(s) ==
    IF s = <<>> THEN 0
    ELSE 10 * DigitsValue(SubSeq(s, 1, Len(s) - 1))
         + (CHOOSE d \in 0 .. 9 : DigitChars[d + 1] = s[Len(s)])

\* a JSON integer: 0, or a digit run that does not start with 0
ParseNumber(s) ==
    LET n == DigitRun(s)
    IN IF n = 0 THEN ParseFail
       ELSE IF Head(s) = "0" THEN ParsedAs(Num(0), Tail(s))
       ELSE ParsedAs(Num(DigitsValue(SubSeq(s, 1, n))), SubSeq(s, n + 1, Len(s)))

NullLiteral == <<"n", "u", "l", "l">>

ParseString(s) ==
    IF s = <<>> \/ Head(s) # "\"" THEN ParseFail
    ELSE LET close == IndexOf(Tail(s), "\"")
         IN IF close = 0 THEN ParseFail
            ELSE LET body == SubSeq(s, 2, close)
                 IN IF IndexOf(body, "\n") # 0 THEN ParseFail
                    ELSE ParsedAs(Str(body), SubSeq(s, close + 2, Len(s)))

\* obj[key] = val on a member list
PutMember(members, key, val) ==
    IF \E i \in 1 .. Len(members) : members[i][1] = key
    THEN [i \in 1 .. Len(members) |->
             IF members[i][1] = key THEN <<key, val>> ELSE members[i]]
    ELSE Append(members, <<key, val>>)

RECURSIVE ParseValue(_)
RECURSIVE ParseMembers(_, _)

ParseValue(s) ==
    IF s = <<>> THEN ParseFail
    ELSE IF Head(s) = "{"
    THEN LET t == TrimStart(Tail(s))
         IN IF t # <<>> /\ Head(t) = "}"
            THEN ParsedAs(Obj(<<>>), Tail(t))
            ELSE ParseMembers(t, <<>>)
    ELSE IF Head(s) = "\"" THEN ParseString(s)
    ELSE IF Len(s) >= 4 /\ SubSeq(s, 1, 4) = NullLiteral
    THEN ParsedAs(Null, SubSeq(s, 5, Len(s)))
    ELSE ParseNumber(s)

ParseMembers(s, acc) ==
    LET k == ParseString(s)
    IN IF ~k.ok THEN ParseFail
       ELSE LET t == TrimStart(k.rest)
            IN IF t = <<>> \/ Head(t) # ":" THEN ParseFail
               ELSE LET v == ParseValue(TrimStart(Tail(t)))
                    IN IF ~v.ok THEN ParseFail
                       ELSE LET acc2 == PutMember(acc, k.val.s, v.val)
                                u == TrimStart(v.rest)
                            IN IF u = <<>> THEN ParseFail
                               ELSE IF Head(u) = "}"
                               THEN ParsedAs(Obj(acc2), Tail(u))
                               ELSE IF Head(u) = ","
                               THEN ParseMembers(TrimStart(Tail(u)), acc2)
                               ELSE ParseFail

\* JSON.parse(text): the value, or ok = FALSE for a SyntaxError
JSONparse(s) ==
    LET v == ParseValue(TrimStart(s))
    IN IF v.ok /\ TrimStart(v.rest) = <<>> THEN [ok |-> TRUE, val |-> v.val]
       ELSE ParseFail

\* ---------------------------------------------------------- JSON.stringify
\* the decimal digits of a non-negative integer
RECURSIVE Decimal(_)
Decimal(n) ==
    IF n < 10 THEN <<DigitChars[n + 1]>>
    ELSE Decimal(n \div 10) \o <<DigitChars[(n % 10) + 1]>>

\* JSON.stringify(value) for null, non-negative integers, strings that need
\* no escape, and objects of these
RECURSIVE JSONstringify(_)
JSONstringify(v) ==
    IF v.t = "null" THEN NullLiteral
    ELSE IF v.t = "num" THEN Decimal(v.v)
    ELSE IF v.t = "string" THEN <<"\"">> \o v.s \o <<"\"">>
    ELSE <<"{">> \o
         Join([i \in 1 .. Len(v.members) |->
                  <<"\"">> \o v.members[i][1] \o <<"\"", ":">> \o
                  JSONstringify(v.members[i][2])],
              <<",">>) \o
         <<"}">>

\* ------------------------------------------------------- extractAnalysis
\* the backtick character is written ~ (a TLA+ string cannot hold a backtick)
Backtick == "~"
Fence == <<Backtick, Backtick, Backtick>>
JsonTag == <<"j", "s", "o", "n">>

StartsWith(s, i, pat) ==
    i + Len(pat) - 1 <= Len(s) /\ SubSeq(s, i, i + Len(pat) - 1) = pat

\* whether the closing part \s*~~~ of the fence regex matches at index e
ClosesAt(s, e) == StartsWith(s, e + WsRun(SubSeq(s, e, Len(s))), Fence)

\* \s*([\s\S]+?)\s*~~~ matched from index b on: k whitespace characters,
\* then the group up to e - 1. The backtracking order is more leading
\* whitespace before less, then a shorter group before a longer one.
FenceGroup(s, b) ==
    LET maxk == WsRun(SubSeq(s, b, Len(s)))
        cands == { c \in (0 .. maxk) \X (b + 1 .. Len(s)) :
                       c[2] > b + c[1] /\ ClosesAt(s, c[2]) }
    IN IF cands = {} THEN [ok |-> FALSE]
       ELSE LET k0 == CHOOSE k \in {c[1] : c \in cands} :
                          \A j \in {c[1] : c \in cands} : k >= j
                ends == {c[2] : c \in {d \in cands : d[1] = k0}}
                e0 == CHOOSE e \in ends : \A j \in ends : e <= j
            IN [ok |-> TRUE, group |-> SubSeq(s, b + k0, e0 - 1)]

\* /~~~(?:json)?\s*([\s\S]+?)\s*~~~/ anchored at index i: the tag is
\* tried first, and given up when the rest cannot match with it
FenceAt(s, i) ==
    IF ~StartsWith(s, i, Fence) THEN [ok |-> FALSE]
    ELSE LET tagged == IF StartsWith(s, i + 3, JsonTag) THEN FenceGroup(s, i + 7)
                       ELSE [ok |-> FALSE]
         IN IF tagged.ok THEN tagged ELSE FenceGroup(s, i + 3)

\* raw.match(fence regex): the leftmost index where it matches; group is
\* capture group 1
FenceMatch(s) ==
    LET starts == { i \in 1 .. Len(s) : FenceAt(s, i).ok }
    IN IF starts = {} THEN [ok |-> FALSE]
       ELSE FenceAt(s, CHOOSE i \in starts : \A j \in starts : i <= j)

\* jsonStr.match(/\{[\s\S]*\}/): from the first { to the last }
BraceMatch(s) ==
    LET f == IndexOf(s, "{")
        l == LastIndexOf(s, "}")
    IN IF f # 0 /\ l > f THEN [ok |-> TRUE, text |-> SubSeq(s, f, l)]
       ELSE [ok |-> FALSE]

\* /analyze, from the model's text to the parsed analysis
extractAnalysis(text) ==
    LET raw == trim(text)
        jsonMatch == FenceMatch(raw)
        jsonStr == IF jsonMatch.ok THEN jsonMatch.group ELSE raw
        objMatch == BraceMatch(jsonStr)
    IN JSONparse(IF objMatch.ok THEN objMatch.text ELSE jsonStr)

\* ------------------------------------- the texts the analysis model returns
\* the property names of an analysis; catKeys holds the six categories
Key ==
    [ overall |-> <<"o", "v", "e", "r", "a", "l", "l">>,
      breakdown |-> <<"b", "r", "e", "a", "k", "d", "o", "w", "n">>,
      score |-> <<"s", "c", "o", "r", "e">>,
      feedback |-> <<"f", "e", "e", "d", "b", "a", "c", "k">>,
      summary |-> <<"s", "u", "m", "m", "a", "r", "y">>,
      keyStrength |-> <<"k", "e", "y", "S", "t", "r", "e", "n", "g", "t", "h">>,
      keyImprovement |->
          <<"k", "e", "y", "I", "m", "p", "r", "o", "v", "e", "m", "e", "n", "t">>,
      catKeys |->
          << <<"o", "p", "e", "n", "i", "n", "g">>,
             <<"o", "b", "j", "e", "c", "t", "i", "o", "n",
               "H", "a", "n", "d", "l", "i", "n", "g">>,
             <<"r", "a", "p", "p", "o", "r", "t">>,
             <<"t", "o", "n", "a", "l", "i", "t", "y">>,
             <<"t", "i", "m", "i", "n", "g">>,
             <<"c", "l", "o", "s", "i", "n", "g">> >> ]
catKeys == Key.catKeys

\* the text fields of the records: plain, with braces, with one and with
\* two runs of three backticks
RecordStrings ==
    { <<"a">>, <<"a", "}">>, <<"{">>, Fence, Fence \o <<"a">> \o Fence }

\* an object of the structure the analyze prompt asks for, with one of
\* the six categories
AnalysisRecord(feedback, summary) ==
    Obj(<< <<Key.overall, Num(72)>>,
           <<Key.breakdown,
             Obj(<< <<catKeys[1],
                      Obj(<< <<Key.score, Num(80)>>,
                             <<Key.feedback, Str(feedback)>> >>)>> >>)>>,
           <<Key.summary, Str(summary)>>,
           <<Key.keyStrength, Str(<<"k">>)>>,
           <<Key.keyImprovement, Str(<<"i">>)>> >>)

AnalysisRecords ==
    { AnalysisRecord(f, s) : f \in {<<"a">>, <<"{">>}, s \in RecordStrings }

\* the object inside a fenced block, with or without the json tag
Fenced(body, tagged) ==
    Fence \o (IF tagged THEN JsonTag ELSE <<>>) \o <<"\n">> \o body \o <<"\n">> \o Fence

\* prose before and after
ProseBefore == { <<>>, <<"H", "i", ":", "\n">> }
ProseAfter == { <<>>, <<"\n", "o", "k", "!">> }

\* the three shapes of an answer that carries the object
ShapesOf(object) ==
    LET json == JSONstringify(object)
    IN { pre \o body \o post :
           pre \in ProseBefore, post \in ProseAfter,
           body \in {json, Fenced(json, TRUE), Fenced(json, FALSE)} }

\* answers that carry no JSON
Garbled ==
    { <<"p">>, <<"g", "a", "r", "b", "l", "e", "d", " ", "t", "e", "x", "t">>,
      Fence \o <<"p">> \o Fence, Fenced(<<"{", "p">>, TRUE), <<"{", "p", "}">>,
      <<"{">> }

\* response.content[0].text of the analyze model call, at large; the last
\* text is a JSON string whose characters are a pair of braces
AnalyzeRawTexts ==
    Garbled \cup UNION { ShapesOf(o) : o \in AnalysisRecords }
            \cup { <<"\"", "{", "}", "\"">> }

\* ------------------------------------------------------------------ Init
\* the process after start-up, the sessions table apart
InitProcess ==
    /\ conversationHistory = <<>>
    /\ knowledgeCache = Null
    /\ knowledgeCacheTime = 0
    /\ store = <<>>
    /\ nextId = 1
    /\ clock = 0
    /\ req = [r \in Req |-> IdleReq]
    /\ turnBy = <<>>
    /\ nextSid = 1
    /\ storeVer = 0
    /\ cachePopulatedAt = 0
    /\ lastPop = NoCall
    /\ prevCall = NoCall
    /\ mutPending = None

\* a fresh deployment: both tables empty
Init ==
    /\ InitProcess
    /\ sessions = <<>>
    /\ nextSessionId = 1

\* requests arrive in slot order
CanStart(r) ==
    req[r].pc = "idle" /\ (IF r = 1 THEN TRUE ELSE req[r - 1].pc # "idle")

\* a chat request between its Rep push and its response
ChatInFlight(r) == req[r].kind = "chat" /\ req[r].pc \in {"kbquery", "kbrows", "model"}

sessionVars == << conversationHistory, turnBy >>
kbVars == << knowledgeCache, knowledgeCacheTime, nextSid, cachePopulatedAt, lastPop >>
dbVars == << store, nextId, storeVer >>
archiveVars == << sessions, nextSessionId >>

\* client.messages.create({ system, messages: conversationHistory }) of /chat
ChatCall(system, h) == [system |-> system, messages |-> h]

\* ------------------------------------------------------------ POST /chat
\* the handler up to its first await that suspends: the validation, the Rep
\* push, buildSystemPrompt -> getKnowledgeBase up to the cache test and,
\* on a cache hit, the issue of the model call (overlapped is history:
\* another chat was in flight when this one arrived)
ChatStart(r, message) ==
    /\ CanStart(r)
    /\ IF ChatRejects(message)
       THEN /\ req' = [req EXCEPT ![r] = [@ EXCEPT !.kind = "chat", !.pc = "done",
                            !.resp = Err(400, "Message is required.")]]
            /\ UNCHANGED << sessionVars, prevCall, mutPending >>
       ELSE /\ conversationHistory' = PushRep(conversationHistory, message)
            /\ turnBy' = Append(turnBy, r)
            /\ mutPending' = None
            /\ IF CacheFresh(clock)
               THEN /\ req' = [req EXCEPT ![r] = [@ EXCEPT !.kind = "chat",
                                    !.pc = "model",
                                    !.overlapped = \E q \in Req : ChatInFlight(q),
                                    !.files = knowledgeCache,
                                    !.modelCalls = 1,
                                    !.call = ChatCall(
                                        buildSystemPrompt(knowledgeCache.rows),
                                        conversationHistory')]]
                    /\ prevCall' = [start |-> clock, sid |-> knowledgeCache.sid]
               ELSE /\ req' = [req EXCEPT ![r] = [@ EXCEPT !.kind = "chat",
                                    !.pc = "kbquery", !.now = clock,
                                    !.overlapped = \E q \in Req : ChatInFlight(q),
                                    !.mustReflect = mutPending,
                                    !.kbReads = 1]]
                    /\ UNCHANGED prevCall
    /\ UNCHANGED << archiveVars, kbVars, dbVars, clock >>

\* the database runs the SELECT of getKnowledgeBase, or fails (readAt is
\* history: the clock when the rows were read)
KbQueryExec(r, ok) ==
    /\ req[r].kind = "chat" /\ req[r].pc = "kbquery"
    /\ req' = [req EXCEPT ![r] = [@ EXCEPT !.pc = "kbrows",
                    !.db = IF ok
                           THEN [ok |-> TRUE, rows |-> SelectForPrompt(store),
                                 ver |-> storeVer, readAt |-> clock]
                           ELSE [ok |-> FALSE]]]
    /\ UNCHANGED << archiveVars, sessionVars, kbVars, dbVars, clock, prevCall, mutPending >>

\* a getKnowledgeBase that stamps the cache when it stores the rows
KbQueryReturnStampingLate(r) ==
    /\ req[r].kind = "chat" /\ req[r].pc = "kbrows"
    /\ IF req[r].db.ok
       THEN LET snap == [sid |-> nextSid, rows |-> req[r].db.rows,
                         ver |-> req[r].db.ver, readAt |-> req[r].db.readAt]
            IN /\ knowledgeCache' = snap
               /\ knowledgeCacheTime' = clock
               /\ nextSid' = nextSid + 1
               /\ cachePopulatedAt' = clock
               /\ lastPop' = [start |-> req[r].now, sid |-> snap.sid]
               /\ prevCall' = [start |-> req[r].now, sid |-> snap.sid]
               /\ mutPending' = IF mutPending = None THEN None
                                ELSE [mutPending EXCEPT !.raced = TRUE]
               /\ req' = [req EXCEPT ![r] = [@ EXCEPT !.pc = "model", !.db = None,
                               !.now = 0,
                               !.files = snap, !.modelCalls = 1,
                               !.call = ChatCall(buildSystemPrompt(snap.rows),
                                                 conversationHistory)]]
       ELSE /\ req' = [req EXCEPT ![r] = [@ EXCEPT !.pc = "done", !.db = None,
                            !.now = 0, !.mustReflect = None,
                            !.resp = Err(500, "storage")]]
            /\ UNCHANGED << kbVars, prevCall, mutPending >>
    /\ UNCHANGED << archiveVars, sessionVars, dbVars, clock >>

\* await pool.query resolves: getKnowledgeBase stores and returns result.rows,
\* buildSystemPrompt builds the prompt and the handler issues the model
\* call; or the query rejects and the handler's catch answers 500
KbQueryReturn(r) ==
    /\ req[r].kind = "chat" /\ req[r].pc = "kbrows"
    /\ IF req[r].db.ok
       THEN LET snap == [sid |-> nextSid, rows |-> req[r].db.rows,
                         ver |-> req[r].db.ver, readAt |-> req[r].db.readAt]
            IN /\ knowledgeCache' = snap
               /\ knowledgeCacheTime' = req[r].now
               /\ nextSid' = nextSid + 1
               /\ cachePopulatedAt' = clock
               /\ lastPop' = [start |-> req[r].now, sid |-> snap.sid]
               /\ prevCall' = [start |-> req[r].now, sid |-> snap.sid]
               /\ mutPending' = IF mutPending = None THEN None
                                ELSE [mutPending EXCEPT !.raced = TRUE]
               /\ req' = [req EXCEPT ![r] = [@ EXCEPT !.pc = "model", !.db = None,
                               !.now = 0,
                               !.files = snap, !.modelCalls = 1,
                               !.call = ChatCall(buildSystemPrompt(snap.rows),
                                                 conversationHistory)]]
       ELSE /\ req' = [req EXCEPT ![r] = [@ EXCEPT !.pc = "done", !.db = None,
                            !.now = 0, !.mustReflect = None,
                            !.resp = Err(500, "storage")]]
            /\ UNCHANGED << kbVars, prevCall, mutPending >>
    /\ UNCHANGED << archiveVars, sessionVars, dbVars, clock >>

\* a reply that fails on a session emptied in the meantime
ChatReplyRespLiveOnly(text) ==
    IF conversationHistory = <<>> THEN Err(500, "session was reset")
    ELSE Ok([response |-> text])

\* the response of /chat once the model call resolved with text
ChatReplyResp(text) == Ok([response |-> text])

\* a handler that issues the model call a second time when the first rejects
ChatModelReturnRetrying(r, ok, text) ==
    /\ req[r].kind = "chat" /\ req[r].pc = "model"
    /\ IF ok
       THEN /\ conversationHistory' = PushHomeowner(conversationHistory, text)
            /\ turnBy' = Append(turnBy, r)
            /\ req' = [req EXCEPT ![r] = [@ EXCEPT !.pc = "done", !.call = None,
                            !.files = None, !.mustReflect = None,
                            !.modelOk = TRUE, !.resp = ChatReplyResp(text)]]
       ELSE /\ req' = [req EXCEPT ![r] =
                        IF @.modelCalls < 2
                        THEN [@ EXCEPT !.modelCalls = @ + 1]
                        ELSE [@ EXCEPT !.pc = "done", !.call = None,
                                       !.files = None, !.mustReflect = None,
                                       !.resp = Err(500, "model")]]
            /\ UNCHANGED sessionVars
    /\ UNCHANGED << archiveVars, kbVars, dbVars, clock, prevCall, mutPending >>

\* await client.messages.create resolves or rejects
ChatModelReturn(r, ok, text) ==
    /\ req[r].kind = "chat" /\ req[r].pc = "model"
    /\ IF ok
       THEN /\ conversationHistory' = PushHomeowner(conversationHistory, text)
            /\ turnBy' = Append(turnBy, r)
            /\ req' = [req EXCEPT ![r] = [@ EXCEPT !.pc = "done", !.call = None,
                            !.files = None, !.mustReflect = None,
                            !.modelOk = TRUE, !.resp = ChatReplyResp(text)]]
       ELSE /\ req' = [req EXCEPT ![r] = [@ EXCEPT !.pc = "done", !.call = None,
                            !.files = None, !.mustReflect = None,
                            !.resp = Err(500, "model")]]
            /\ UNCHANGED sessionVars
    /\ UNCHANGED << archiveVars, kbVars, dbVars, clock, prevCall, mutPending >>

\* ----------------------------------------------------------- POST /reset
\* a reset that spares the history while a chat awaits its reply
ResetHistoryUnlessBusy(h) == IF \E q \in Req : ChatInFlight(q) THEN h ELSE <<>>

\* /reset: conversationHistory = []
ResetHistory(h) == <<>>

Reset(r) ==
    /\ CanStart(r)
    /\ conversationHistory' = ResetHistory(conversationHistory)
    /\ turnBy' = IF conversationHistory' = <<>> THEN <<>> ELSE turnBy
    /\ req' = [q \in Req |->
                 IF q = r
                 THEN [req[q] EXCEPT !.kind = "reset", !.pc = "done",
                                     !.resp = Ok([success |-> TRUE])]
                 ELSE IF ChatInFlight(q)
                 THEN [req[q] EXCEPT !.resets = @ + 1]
                 ELSE req[q]]
    /\ UNCHANGED << archiveVars, kbVars, dbVars, clock, prevCall, mutPending >>

\* ------------------------------------------------------------- the clock
Tick ==
    /\ clock < MaxTicks * TickMs
    /\ clock' = clock + TickMs
    /\ UNCHANGED << archiveVars, sessionVars, kbVars, dbVars, req, prevCall, mutPending >>

\* ------------------------------------------------------- POST /scorecard
\* client.messages.create({ messages: [{ role: 'user', content }] }) of
\* /scorecard and /analyze: the prompt embeds conversationText
ScoringCall(kind, h) == [prompt |-> kind, conversationText |-> renderForScoring(h),
                         turns |-> Len(h)]

\* the handler up to its await: the gate, the rendering, the model call
ScorecardStart(r) ==
    /\ CanStart(r)
    /\ IF HistoryEmpty(conversationHistory)
       THEN req' = [req EXCEPT ![r] = [@ EXCEPT !.kind = "scorecard", !.pc = "done",
                        !.resp = Err(400, "No conversation to score yet.")]]
       ELSE req' = [req EXCEPT ![r] = [@ EXCEPT !.kind = "scorecard", !.pc = "model",
                        !.modelCalls = 1,
                        !.call = ScoringCall("SCORECARD_PROMPT", conversationHistory)]]
    /\ UNCHANGED << archiveVars, sessionVars, kbVars, dbVars, clock, prevCall, mutPending >>

\* a scorecard that closes the session once it answered
ScorecardReturnClosing(r, ok, text) ==
    /\ req[r].kind = "scorecard" /\ req[r].pc = "model"
    /\ req' = [req EXCEPT ![r] = [@ EXCEPT !.pc = "done", !.call = None,
                    !.modelOk = ok,
                    !.resp = IF ok THEN Ok([scorecard |-> text])
                             ELSE Err(500, "model")]]
    /\ conversationHistory' = <<>>
    /\ turnBy' = <<>>
    /\ UNCHANGED << archiveVars, kbVars, dbVars, clock, prevCall, mutPending >>

\* await client.messages.create resolves (the scorecard) or rejects (500)
ScorecardReturn(r, ok, text) ==
    /\ req[r].kind = "scorecard" /\ req[r].pc = "model"
    /\ req' = [req EXCEPT ![r] = [@ EXCEPT !.pc = "done", !.call = None,
                    !.modelOk = ok,
                    !.resp = IF ok THEN Ok([scorecard |-> text])
                             ELSE Err(500, "model")]]
    /\ UNCHANGED << archiveVars, sessionVars, kbVars, dbVars, clock, prevCall, mutPending >>

\* ------------------------------------------------- POST /knowledge-file
\* the test of /knowledge-file: !filename || !content
AddRejects(filename, content) == Falsy(filename) \/ Falsy(content)

\* the handler up to its await: the validation and the issue of the INSERT
AddStart(r, filename, content) ==
    /\ CanStart(r)
    /\ IF AddRejects(filename, content)
       THEN req' = [req EXCEPT ![r] = [@ EXCEPT !.kind = "add", !.pc = "done",
                        !.resp = Err(400, "filename and content required.")]]
       ELSE req' = [req EXCEPT ![r] = [@ EXCEPT !.kind = "add", !.pc = "sql",
                        !.arg = [filename |-> filename, content |-> content]]]
    /\ UNCHANGED << archiveVars, sessionVars, kbVars, dbVars, clock, prevCall, mutPending >>

\* the database runs INSERT INTO knowledge_files ... RETURNING id, or fails
AddExec(r, ok) ==
    /\ req[r].kind = "add" /\ req[r].pc = "sql"
    /\ IF ok
       THEN /\ store' = Append(store, [id |-> nextId,
                                       filename |-> trim(req[r].arg.filename.s),
                                       content |-> trim(req[r].arg.content.s)])
            /\ nextId' = nextId + 1
            /\ storeVer' = storeVer + 1
            /\ req' = [req EXCEPT ![r] = [@ EXCEPT !.pc = "sqldone",
                            !.db = [ok |-> TRUE, id |-> nextId,
                                    ver |-> storeVer + 1]]]
       ELSE /\ req' = [req EXCEPT ![r] = [@ EXCEPT !.pc = "sqldone",
                            !.db = [ok |-> FALSE]]]
            /\ UNCHANGED dbVars
    /\ lastPop' = NoCall
    /\ prevCall' = NoCall
    /\ UNCHANGED << archiveVars, sessionVars, knowledgeCache, knowledgeCacheTime, nextSid,
                    cachePopulatedAt, clock, mutPending >>

\* history: an add or delete whose write was number ver has completed, and
\* no getKnowledgeBase call has started or stored its rows since
Completed(ver) ==
    [ver |-> IF mutPending # None /\ mutPending.ver > ver THEN mutPending.ver ELSE ver,
     raced |-> FALSE]

\* a mutation that leaves the cache in place
InvalidateNothing(cache) == cache

\* knowledgeCache = null of /knowledge-file and /knowledge-file/:id
Invalidate(cache) == Null

\* await pool.query resolves (invalidate, answer) or rejects (500)
AddReturn(r) ==
    /\ req[r].kind = "add" /\ req[r].pc = "sqldone"
    /\ IF req[r].db.ok
       THEN /\ knowledgeCache' = Invalidate(knowledgeCache)
            /\ mutPending' = Completed(req[r].db.ver)
            /\ req' = [req EXCEPT ![r] = [@ EXCEPT !.pc = "done", !.db = None,
                            !.arg = None,
                            !.resp = Ok([success |-> TRUE, id |-> req[r].db.id])]]
       ELSE /\ req' = [req EXCEPT ![r] = [@ EXCEPT !.pc = "done", !.db = None,
                            !.arg = None,
                            !.resp = Err(500, "storage")]]
            /\ UNCHANGED << knowledgeCache, mutPending >>
    /\ lastPop' = NoCall
    /\ prevCall' = NoCall
    /\ UNCHANGED << archiveVars, sessionVars, knowledgeCacheTime, nextSid, cachePopulatedAt,
                    dbVars, clock >>

\* -------------------------------------------- DELETE /knowledge-file/:id
\* the handler up to its await: the issue of the DELETE
DeleteStart(r, id) ==
    /\ CanStart(r)
    /\ req' = [req EXCEPT ![r] = [@ EXCEPT !.kind = "delete", !.pc = "sql",
                    !.arg = [id |-> id]]]
    /\ UNCHANGED << archiveVars, sessionVars, kbVars, dbVars, clock, prevCall, mutPending >>

\* the database runs the DELETE, or fails
DeleteExec(r, ok) ==
    /\ req[r].kind = "delete" /\ req[r].pc = "sql"
    /\ IF ok
       THEN /\ store' = DeleteRow(store, req[r].arg.id)
            /\ storeVer' = storeVer + 1
            /\ req' = [req EXCEPT ![r] = [@ EXCEPT !.pc = "sqldone",
                            !.db = [ok |-> TRUE, ver |-> storeVer + 1]]]
            /\ UNCHANGED nextId
       ELSE /\ req' = [req EXCEPT ![r] = [@ EXCEPT !.pc = "sqldone",
                            !.db = [ok |-> FALSE]]]
            /\ UNCHANGED dbVars
    /\ lastPop' = NoCall
    /\ prevCall' = NoCall
    /\ UNCHANGED << archiveVars, sessionVars, knowledgeCache, knowledgeCacheTime, nextSid,
                    cachePopulatedAt, clock, mutPending >>

\* await pool.query resolves (invalidate, answer) or rejects (500)
DeleteReturn(r) ==
    /\ req[r].kind = "delete" /\ req[r].pc = "sqldone"
    /\ IF req[r].db.ok
       THEN /\ knowledgeCache' = Invalidate(knowledgeCache)
            /\ mutPending' = Completed(req[r].db.ver)
            /\ req' = [req EXCEPT ![r] = [@ EXCEPT !.pc = "done", !.db = None,
                            !.arg = None,
                            !.resp = Ok([success |-> TRUE])]]
       ELSE /\ req' = [req EXCEPT ![r] = [@ EXCEPT !.pc = "done", !.db = None,
                            !.arg = None,
                            !.resp = Err(500, "storage")]]
            /\ UNCHANGED << knowledgeCache, mutPending >>
    /\ lastPop' = NoCall
    /\ prevCall' = NoCall
    /\ UNCHANGED << archiveVars, sessionVars, knowledgeCacheTime, nextSid, cachePopulatedAt,
                    dbVars, clock >>

\* --------------------------------------------------------- POST /analyze
\* the handler up to its await: the gate, the rendering, the model call
AnalyzeStart(r) ==
    /\ CanStart(r)
    /\ IF HistoryEmpty(conversationHistory)
       THEN req' = [req EXCEPT ![r] = [@ EXCEPT !.kind = "analyze", !.pc = "done",
                        !.resp = Err(400, "No conversation to analyze.")]]
       ELSE req' = [req EXCEPT ![r] = [@ EXCEPT !.kind = "analyze", !.pc = "model",
                        !.modelCalls = 1,
                        !.call = ScoringCall("ANALYZE_PROMPT", conversationHistory)]]
    /\ UNCHANGED << archiveVars, sessionVars, kbVars, dbVars, clock, prevCall, mutPending >>

\* a response that answers an unparsable text with an empty analysis
AnalyzeRespLenient(ok, parsed) ==
    IF ~ok THEN Err(500, "model")
    ELSE IF parsed.ok THEN Ok([analysis |-> parsed.val])
    ELSE Ok([analysis |-> Obj(<<>>)])

\* res.json({ analysis }), or the catch: a rejected model call and a
\* SyntaxError of JSON.parse are answered 500
AnalyzeResp(ok, parsed) ==
    IF ~ok THEN Err(500, "model")
    ELSE IF parsed.ok THEN Ok([analysis |-> parsed.val])
    ELSE Err(500, "SyntaxError")

\* the model call resolves with text (parsed by extractAnalysis) or rejects
AnalyzeReturn(r, ok, text) ==
    /\ req[r].kind = "analyze" /\ req[r].pc = "model"
    /\ req' = [req EXCEPT ![r] = [@ EXCEPT !.pc = "done", !.call = None,
                    !.modelOk = ok,
                    !.resp = AnalyzeResp(ok, extractAnalysis(text))]]
    /\ UNCHANGED << archiveVars, sessionVars, kbVars, dbVars, clock, prevCall, mutPending >>

\* --------------------------------------------------- the sessions table
\* everything outside the sessions table and the requests
processVars == << sessionVars, kbVars, dbVars, clock, prevCall, mutPending >>

\* ' days' of the interval arithmetic, in the unit of the clock
DayMs == 86400000
\* LIMIT 100
ListLimit == 100
\* issues.slice(0, 3)
TopIssuesLen == 3
\* scores.length >= 4
TrendMinSessions == 4

\* LOWER() on the letters used here
Lower(c) == IF c = "A" THEN "a" ELSE IF c = "B" THEN "b" ELSE c
LowerStr(s) == [i \in 1 .. Len(s) |-> Lower(s[i])]

\* array.reverse; ORDER BY created_at DESC on rows kept by created_at, the
\* timestamps of distinct inserts being distinct
Reverse(s) == [i \in 1 .. Len(s) |-> s[Len(s) + 1 - i]]

\* the value as given, with no default
OrNothing(v) == v

\* value || 0
OrZero(v) == IF Falsy(v) THEN Num(0) ELSE v

\* parseInt(string): the leading digits after optional whitespace, NaN
\* when there are none or the value is undefined
NaN == [t |-> "nan"]
parseInt(v) ==
    IF v.t # "string" THEN NaN
    ELSE LET body == TrimStart(v.s)
             n == DigitRun(body)
         IN IF n = 0 THEN NaN ELSE Num(DigitsValue(SubSeq(body, 1, n)))

\* parseInt(req.query.days) || null
DaysParam(v) ==
    LET n == parseInt(v) IN IF n = NaN \/ Falsy(n) THEN Null ELSE n

\* created_at >= NOW() - ($1 || ' days')::interval, or no WHERE clause
InWindow(row, now, days) ==
    days = Null \/ row.created_at >= now - days.v * DayMs

\* the JSONB column: the text of the parameter parsed into a value
ToJsonb(text) == JSONparse(text).val

\* { id, date, duration, repMessages, analysis } of /sessions and
\* /manager/sessions
SessionSummary(row) ==
    [id |-> row.id, date |-> row.created_at, duration |-> row.duration,
     repMessages |-> row.rep_messages, analysis |-> row.analysis]

\* the name test with exact comparison
NameMatchesExactly(rep_name, name) == rep_name = name

\* WHERE LOWER(rep_name) = LOWER($1)
NameMatches(rep_name, name) == LowerStr(rep_name) = LowerStr(name)

\* SELECT * FROM sessions WHERE LOWER(rep_name) = LOWER($1) [AND created_at
\* >= ...] ORDER BY created_at DESC LIMIT 100
SelectByRep(table, name, now, days) ==
    LET Matches(row) == NameMatches(row.rep_name, name) /\ InWindow(row, now, days)
    IN Slice0(Reverse(SelectSeq(table, Matches)), ListLimit)

\* ----------------------------------------------------- POST /save-session
\* the test of /save-session: !repName || !analysis
SaveRejects(repName, analysis) == Falsy(repName) \/ Falsy(analysis)

\* the parameters of the INSERT
SaveParams(repName, duration, repMessages, analysis) ==
    [rep_name |-> trim(repName.s), duration |-> OrZero(duration),
     rep_messages |-> OrZero(repMessages), analysis |-> JSONstringify(analysis)]

\* the handler up to its await: the validation and the issue of the INSERT
SaveStart(r, repName, duration, repMessages, analysis) ==
    /\ CanStart(r)
    /\ IF SaveRejects(repName, analysis)
       THEN req' = [req EXCEPT ![r] = [@ EXCEPT !.kind = "save", !.pc = "done",
                        !.resp = Err(400, "repName and analysis are required.")]]
       ELSE req' = [req EXCEPT ![r] = [@ EXCEPT !.kind = "save", !.pc = "sql",
                        !.arg = SaveParams(repName, duration, repMessages, analysis)]]
    /\ UNCHANGED << archiveVars, processVars >>

\* an INSERT that stores the row twice
InsertSessionTwice(table, row) == Append(Append(table, row), row)

\* an INSERT that leaves the new row alone in the table
InsertSessionOnly(table, row) == <<row>>

\* INSERT INTO sessions: the table with one more row
InsertSession(table, row) == Append(table, row)

\* the database runs INSERT INTO sessions (id and created_at take their
\* defaults), or fails
SaveExec(r, ok) ==
    /\ req[r].kind = "save" /\ req[r].pc = "sql"
    /\ IF ok
       THEN /\ sessions' = InsertSession(sessions,
                               [id |-> nextSessionId,
                                rep_name |-> req[r].arg.rep_name,
                                created_at |-> clock,
                                duration |-> req[r].arg.duration,
                                rep_messages |-> req[r].arg.rep_messages,
                                analysis |-> ToJsonb(req[r].arg.analysis)])
            /\ nextSessionId' = nextSessionId + 1
       ELSE UNCHANGED archiveVars
    /\ req' = [req EXCEPT ![r] = [@ EXCEPT !.pc = "sqldone", !.db = [ok |-> ok]]]
    /\ UNCHANGED processVars

\* await pool.query resolves (answer) or rejects (500)
SaveReturn(r) ==
    /\ req[r].kind = "save" /\ req[r].pc = "sqldone"
    /\ req' = [req EXCEPT ![r] = [@ EXCEPT !.pc = "done", !.db = None, !.arg = None,
                    !.resp = IF req[r].db.ok THEN Ok([success |-> TRUE])
                             ELSE Err(500, "storage")]]
    /\ UNCHANGED << archiveVars, processVars >>

\* ----------------------------------------------------------- GET /sessions
\* the handler up to its await: the validation and the issue of the SELECT
SessionsStart(r, name) ==
    /\ CanStart(r)
    /\ IF Falsy(name)
       THEN req' = [req EXCEPT ![r] = [@ EXCEPT !.kind = "sessions", !.pc = "done",
                        !.resp = Err(400, "name query param required.")]]
       ELSE req' = [req EXCEPT ![r] = [@ EXCEPT !.kind = "sessions", !.pc = "sql",
                        !.arg = [name |-> trim(name.s), days |-> Null]]]
    /\ UNCHANGED << archiveVars, processVars >>

\* the database runs the SELECT of /sessions or /manager/sessions, or fails
SessionsExec(r, ok) ==
    /\ req[r].kind \in {"sessions", "managerSessions"} /\ req[r].pc = "sql"
    /\ req' = [req EXCEPT ![r] = [@ EXCEPT !.pc = "sqldone",
                    !.db = IF ok
                           THEN [ok |-> TRUE,
                                 rows |-> SelectByRep(sessions, req[r].arg.name,
                                                      clock, req[r].arg.days)]
                           ELSE [ok |-> FALSE]]]
    /\ UNCHANGED << archiveVars, processVars >>

\* await pool.query resolves (the rows mapped to summaries) or rejects (500)
SessionsReturn(r) ==
    /\ req[r].kind \in {"sessions", "managerSessions"} /\ req[r].pc = "sqldone"
    /\ req' = [req EXCEPT ![r] = [@ EXCEPT !.pc = "done", !.db = None, !.arg = None,
                    !.resp = IF req[r].db.ok
                             THEN Ok([sessions |->
                                        [i \in 1 .. Len(req[r].db.rows) |->
                                            SessionSummary(req[r].db.rows[i])]])
                             ELSE Err(500, "storage")]]
    /\ UNCHANGED << archiveVars, processVars >>

\* --------------------------------------------------- the manager endpoints
\* process.env.MANAGER_PIN || '1234'
ManagerPin == <<"1", "2", "3", "4">>

\* checkPin: req.query.pin !== pin answers 401
checkPin(pin) == pin = Str(ManagerPin)

\* GET /manager/sessions up to its await: the PIN, the validation, the
\* issue of the SELECT
ManagerSessionsStart(r, pin, rep, days) ==
    /\ CanStart(r)
    /\ IF ~checkPin(pin)
       THEN req' = [req EXCEPT ![r] = [@ EXCEPT !.kind = "managerSessions",
                        !.pc = "done", !.resp = Err(401, "Invalid PIN.")]]
       ELSE IF Falsy(rep)
       THEN req' = [req EXCEPT ![r] = [@ EXCEPT !.kind = "managerSessions",
                        !.pc = "done",
                        !.resp = Err(400, "rep query param required.")]]
       ELSE req' = [req EXCEPT ![r] = [@ EXCEPT !.kind = "managerSessions",
                        !.pc = "sql",
                        !.arg = [name |-> trim(rep.s), days |-> DaysParam(days)]]]
    /\ UNCHANGED << archiveVars, processVars >>

\* value[key]: undefined on a value that has no such property
Get(value, key) ==
    IF value.t = "obj" /\ \E i \in 1 .. Len(value.members) : value.members[i][1] = key
    THEN value.members[CHOOSE i \in 1 .. Len(value.members) :
                           value.members[i][1] = key][2]
    ELSE Undefined

\* v == null
Nullish(v) == v.t \in {"undefined", "null"}

\* a.breakdown?.[k]?.score
CategoryScore(a, k) ==
    LET b == Get(a, Key.breakdown)
    IN IF Nullish(b) THEN Undefined
       ELSE LET c == Get(b, k)
            IN IF Nullish(c) THEN Undefined ELSE Get(c, Key.score)

\* reduce((a, b) => a + b, 0) over numbers
RECURSIVE Sum(_)
Sum(s) ==
    IF s = <<>> THEN 0
    ELSE IF Len(s) = 1 THEN s[1]
    ELSE Sum(SubSeq(s, 1, Len(s) \div 2)) + Sum(SubSeq(s, Len(s) \div 2 + 1, Len(s)))

Max(s) == CHOOSE m \in {s[i] : i \in 1 .. Len(s)} : \A i \in 1 .. Len(s) : m >= s[i]

\* Math.round(n / d), d > 0: the nearest integer, a half going up
MathRound(n, d) == (2 * n + d) \div (2 * d)

\* the older half taken right after the newer one: scores.slice(half)
OlderHalfFromMiddle(scores, half) == SubSeq(scores, half + 1, Len(scores))

\* scores.slice(-half)
OlderHalf(scores, half) == SubSeq(scores, Len(scores) - half + 1, Len(scores))

\* the improvement of a rep, from the newest-first scores: both means have
\* the denominator half, so their difference is (sum - sum) / half
Improvement(scores) ==
    IF Len(scores) >= TrendMinSessions
    THEN LET half == Len(scores) \div 2
             newer == Sum(SubSeq(scores, 1, half))
             older == Sum(OlderHalf(scores, half))
         IN Num(MathRound(newer - older, half))
    ELSE Null

\* the category scores with a missing one counted as 0
PresentScoresZeroed(analyses, k) ==
    [i \in 1 .. Len(analyses) |->
        IF Nullish(CategoryScore(analyses[i], k)) THEN Num(0)
        ELSE CategoryScore(analyses[i], k)]

\* analyses.map(a => a.breakdown?.[k]?.score).filter(v => v != null)
PresentScores(analyses, k) ==
    LET vals == [i \in 1 .. Len(analyses) |-> CategoryScore(analyses[i], k)]
        Present(v) == ~Nullish(v)
    IN SelectSeq(vals, Present)

\* the numbers of a list of number values
Numbers(vals) == [i \in 1 .. Len(vals) |-> vals[i].v]

\* catAvgs[k]
CategoryAverage(analyses, k) ==
    LET vals == PresentScores(analyses, k)
    IN IF Len(vals) # 0 THEN Num(MathRound(Sum(Numbers(vals)), Len(vals)))
       ELSE Null

\* one element of reps: the statistics of a row of the grouped query
RepStats(row) ==
    LET analyses == row.all_analyses
        scores == [i \in 1 .. Len(analyses) |->
                      OrZero(Get(analyses[i], Key.overall)).v]
        issues == LET all == [i \in 1 .. Len(analyses) |->
                                 Get(analyses[i], Key.keyImprovement)]
                      Truthy(v) == ~Falsy(v)
                  IN SelectSeq(all, Truthy)
    IN [name |-> row.rep_name,
        sessionCount |-> row.session_count,
        avgScore |-> row.avg_score,
        bestScore |-> row.best_score,
        latestScore |-> IF Len(scores) > 0 THEN scores[1] ELSE 0,
        lastActive |-> row.last_active,
        improvement |-> Improvement(scores),
        catAvgs |-> [i \in 1 .. Len(catKeys) |-> CategoryAverage(analyses, catKeys[i])],
        topIssues |-> Slice0(issues, TopIssuesLen)]

\* the rows of sessions inside the window, oldest first
Windowed(table, now, days) ==
    LET Inside(row) == InWindow(row, now, days) IN SelectSeq(table, Inside)

\* ROUND(AVG(x))::int over the non-null x, NULL when there are none
SqlRoundAvg(xs) == IF xs = <<>> THEN Null ELSE Num(MathRound(Sum(xs), Len(xs)))

\* MAX(x)::int over the non-null x, NULL when there are none
SqlMax(xs) == IF xs = <<>> THEN Null ELSE Num(Max(xs))

\* (analysis->>'overall')::numeric over rows, the NULLs left out
Overalls(rows) ==
    LET vals == [i \in 1 .. Len(rows) |-> Get(rows[i].analysis, Key.overall)]
        IsNumber(v) == v.t = "num"
    IN Numbers(SelectSeq(vals, IsNumber))

\* one row of the grouped query: GROUP BY rep_name with its aggregates
GroupRow(rows, name) ==
    LET NameIs(row) == row.rep_name = name
        mine == SelectSeq(rows, NameIs)
    IN [rep_name |-> name,
        session_count |-> Len(mine),
        avg_score |-> SqlRoundAvg(Overalls(mine)),
        best_score |-> SqlMax(Overalls(mine)),
        last_active |-> mine[Len(mine)].created_at,
        all_analyses |-> Reverse([i \in 1 .. Len(mine) |-> mine[i].analysis])]

\* ORDER BY avg_score DESC: a NULL sorts first
AvgNotBelow(a, b) == a = Null \/ (b # Null /\ a.v >= b.v)

\* the results the grouped query may give: the groups in any order that
\* ORDER BY avg_score DESC allows
GroupedByRep(table, now, days) ==
    LET rows == Windowed(table, now, days)
        names == {rows[i].rep_name : i \in 1 .. Len(rows)}
        groups == {GroupRow(rows, n) : n \in names}
        k == Cardinality(names)
    IN { out \in [1 .. k -> groups] :
           /\ \A i, j \in 1 .. k : i # j => out[i] # out[j]
           /\ \A i \in 1 .. k - 1 : AvgNotBelow(out[i].avg_score, out[i + 1].avg_score) }

\* GET /manager/reps up to its await: the PIN and the issue of the query
ManagerRepsStart(r, pin, days) ==
    /\ CanStart(r)
    /\ IF ~checkPin(pin)
       THEN req' = [req EXCEPT ![r] = [@ EXCEPT !.kind = "managerReps",
                        !.pc = "done", !.resp = Err(401, "Invalid PIN.")]]
       ELSE req' = [req EXCEPT ![r] = [@ EXCEPT !.kind = "managerReps",
                        !.pc = "sql", !.arg = [days |-> DaysParam(days)]]]
    /\ UNCHANGED << archiveVars, processVars >>

\* the database runs the grouped query, or fails
ManagerRepsExec(r, ok) ==
    /\ req[r].kind = "managerReps" /\ req[r].pc = "sql"
    /\ IF ok
       THEN \E rows \in GroupedByRep(sessions, clock, req[r].arg.days) :
               req' = [req EXCEPT ![r] = [@ EXCEPT !.pc = "sqldone",
                           !.db = [ok |-> TRUE, rows |-> rows]]]
       ELSE req' = [req EXCEPT ![r] = [@ EXCEPT !.pc = "sqldone",
                           !.db = [ok |-> FALSE]]]
    /\ UNCHANGED << archiveVars, processVars >>

\* await pool.query resolves (the rows mapped to statistics) or rejects (500)
ManagerRepsReturn(r) ==
    /\ req[r].kind = "managerReps" /\ req[r].pc = "sqldone"
    /\ req' = [req EXCEPT ![r] = [@ EXCEPT !.pc = "done", !.db = None, !.arg = None,
                    !.resp = IF req[r].db.ok
                             THEN Ok([reps |->
                                        [i \in 1 .. Len(req[r].db.rows) |->
                                            RepStats(req[r].db.rows[i])]])
                             ELSE Err(500, "storage")]]
    /\ UNCHANGED << archiveVars, processVars >>

\* ---------------------------------------------------- GET /knowledge-files
\* the handler up to its await: the issue of the SELECT
ListFilesStart(r) ==
    /\ CanStart(r)
    /\ req' = [req EXCEPT ![r] = [@ EXCEPT !.kind = "listFiles", !.pc = "sql"]]
    /\ UNCHANGED << archiveVars, processVars >>

\* the database runs SELECT id, filename, LEFT(content, 120) AS preview ...
\* ORDER BY uploaded_at DESC, or fails
ListFilesExec(r, ok) ==
    /\ req[r].kind = "listFiles" /\ req[r].pc = "sql"
    /\ req' = [req EXCEPT ![r] = [@ EXCEPT !.pc = "sqldone",
                    !.db = IF ok
                           THEN [ok |-> TRUE,
                                 rows |-> Reverse(
                                     [i \in 1 .. Len(store) |->
                                         [id |-> store[i].id,
                                          filename |-> store[i].filename,
                                          preview |-> Slice0(store[i].content,
                                                             PreviewLen)]])]
                           ELSE [ok |-> FALSE]]]
    /\ UNCHANGED << archiveVars, processVars >>

\* await pool.query resolves (the rows are the answer) or rejects (500)
ListFilesReturn(r) ==
    /\ req[r].kind = "listFiles" /\ req[r].pc = "sqldone"
    /\ req' = [req EXCEPT ![r] = [@ EXCEPT !.pc = "done", !.db = None,
                    !.resp = IF req[r].db.ok THEN Ok([files |-> req[r].db.rows])
                             ELSE Err(500, "storage")]]
    /\ UNCHANGED << archiveVars, processVars >>

\* ------------------------------------------- the inputs of the archive
\* req.body.analysis of /save-session
SavedAnalysis == Obj(<< <<Key.overall, Num(72)>>, <<Key.summary, Str(<<"s">>)>> >>)

\* req.body of /save-session: repName, duration, repMessages, analysis
SaveBodies ==
    { <<Undefined, Num(5), Num(3), SavedAnalysis>>,
      <<Str(<<>>), Undefined, Undefined, SavedAnalysis>>,
      <<Str(<<"A">>), Num(5), Num(3), Undefined>>,
      <<Str(<<"A">>), Num(5), Num(3), Null>>,
      <<Str(<<" ">>), Undefined, Undefined, SavedAnalysis>>,
      <<Str(<<"A">>), Undefined, Undefined, SavedAnalysis>>,
      <<Str(<<" ", "a", " ">>), Num(5), Num(3), SavedAnalysis>>,
      <<Str(<<"A">>), Num(0), Null, SavedAnalysis>> }

\* req.query.name of /sessions and req.query.rep of /manager/sessions
ListNames ==
    { Undefined, Str(<<>>), Str(<<" ">>), Str(<<"a">>), Str(<<"A", " ">>),
      Str(<<"A", "B">>) }

\* req.query.pin
Pins == { Undefined, Str(ManagerPin) }

\* req.query.days
DaysQueries == { Undefined, Str(<<"1">>) }

\* uploaded documents: one shorter than the slice of the prompt, one as long
\* as it, one of 5000 characters; the character depends on its position
PromptDocs ==
    LET Text(n) == [i \in 1 .. n |-> <<"x", "y", "z">>[(i % 3) + 1]]
    IN { [filename |-> <<"f">>, content |-> Text(2)],
         [filename |-> <<"g", "2">>, content |-> Text(3000)],
         [filename |-> <<"h">>, content |-> Text(5000)] }

\* req.body.repName of the saves that precede a listing
ListingSaves == { Str(<<" ">>), Str(<<" ", "a", " ">>) }

\* req.query.name of the listings that follow them
ListingNames == { Str(<<>>), Str(<<" ">>), Str(<<"A", " ">>), Str(<<"A", "B">>) }

\* a table of ListLimit + 1 sessions of one rep, saved before the requests
LongTable ==
    [i \in 1 .. ListLimit + 1 |->
        [id |-> i, rep_name |-> <<"A">>, created_at |-> 0, duration |-> Num(0),
         rep_messages |-> Num(0), analysis |-> SavedAnalysis]]

\* the sessions a manager may find stored, oldest first: rep_name and
\* analysis (overall, breakdown with its categories and scores, any of
\* them missing or null)
BaseSessions ==
    LET Cat(k, score) == <<catKeys[k], Obj(<< <<Key.score, score>> >>)>>
        Analysis(overall, breakdown) ==
            Obj(<< <<Key.overall, Num(overall)>> >> \o breakdown \o
                << <<Key.keyImprovement, Str(<<"i">>)>> >>)
        Breakdown(cats) == << <<Key.breakdown, Obj(cats)>> >>
    IN << [rep_name |-> <<"A">>,
           analysis |-> Analysis(55, Breakdown(<< Cat(1, Null), <<catKeys[6], Null>> >>))],
          [rep_name |-> <<"A">>, analysis |-> Analysis(60, <<>>)],
          [rep_name |-> <<"B">>, analysis |-> Analysis(40, Breakdown(<< Cat(1, Num(10)) >>))],
          [rep_name |-> <<"A">>, analysis |-> Analysis(85, Breakdown(<< Cat(1, Num(75)) >>))],
          [rep_name |-> <<"A">>,
           analysis |-> Analysis(90, Breakdown(<< Cat(1, Num(80)), Cat(6, Num(71)) >>))],
          [rep_name |-> <<"A">>, analysis |-> Analysis(54, Breakdown(<< Cat(1, Num(0)) >>))],
          [rep_name |-> <<"A">>, analysis |-> Analysis(71, Breakdown(<< Cat(6, Num(70)) >>))] >>

\* the table holding the sessions of BaseSessions whose index is in kept,
\* the oldest of them saved two days ago when aged, the others now
SessionsTable(kept, aged) ==
    LET IsKept(i) == i \in kept
        index == SelectSeq([i \in 1 .. Len(BaseSessions) |-> i], IsKept)
    IN [k \in 1 .. Len(index) |->
           [id |-> k, rep_name |-> BaseSessions[index[k]].rep_name,
            created_at |-> IF aged /\ k = 1 THEN 0 - 2 * DayMs ELSE 0,
            duration |-> Num(0), rep_messages |-> Num(0),
            analysis |-> BaseSessions[index[k]].analysis]]

\* ------------------------------------------------------------------ Next
Next ==
    \/ \E r \in Req, m \in ChatMessages : ChatStart(r, m)
    \/ \E r \in Req, ok \in BOOLEAN : KbQueryExec(r, ok)
    \/ \E r \in Req : KbQueryReturn(r)
    \/ \E r \in Req, ok \in BOOLEAN, t \in ChatTexts : ChatModelReturn(r, ok, t)
    \/ \E r \in Req : ScorecardStart(r)
    \/ \E r \in Req, ok \in BOOLEAN, t \in ScorecardTexts : ScorecardReturn(r, ok, t)
    \/ \E r \in Req : AnalyzeStart(r)
    \/ \E r \in Req, ok \in BOOLEAN, t \in AnalyzeTexts : AnalyzeReturn(r, ok, t)
    \/ \E r \in Req, f \in AddFilenames, c \in AddContents : AddStart(r, f, c)
    \/ \E r \in Req, ok \in BOOLEAN : AddExec(r, ok)
    \/ \E r \in Req : AddReturn(r)
    \/ \E r \in Req, id \in DeleteIds : DeleteStart(r, id)
    \/ \E r \in Req, ok \in BOOLEAN : DeleteExec(r, ok)
    \/ \E r \in Req : DeleteReturn(r)
    \/ \E r \in Req : Reset(r)
    \/ Tick
    \/ \E r \in Req, b \in SaveBodies : SaveStart(r, b[1], b[2], b[3], b[4])
    \/ \E r \in Req, ok \in BOOLEAN : SaveExec(r, ok)
    \/ \E r \in Req : SaveReturn(r)
    \/ \E r \in Req, n \in ListNames : SessionsStart(r, n)
    \/ \E r \in Req, ok \in BOOLEAN : SessionsExec(r, ok)
    \/ \E r \in Req : SessionsReturn(r)
    \/ \E r \in Req, p \in Pins, n \in ListNames, d \in DaysQueries :
           ManagerSessionsStart(r, p, n, d)
    \/ \E r \in Req, p \in Pins, d \in DaysQueries : ManagerRepsStart(r, p, d)
    \/ \E r \in Req, ok \in BOOLEAN : ManagerRepsExec(r, ok)
    \/ \E r \in Req : ManagerRepsReturn(r)
    \/ \E r \in Req : ListFilesStart(r)
    \/ \E r \in Req, ok \in BOOLEAN : ListFilesExec(r, ok)
    \/ \E r \in Req : ListFilesReturn(r)

Spec == Init /\ [][Next]_vars

\* the conversation endpoints alone: chat, scorecard, analyze and reset
NextSession ==
    \/ \E r \in Req, m \in ChatMessages : ChatStart(r, m)
    \/ \E r \in Req, ok \in BOOLEAN : KbQueryExec(r, ok)
    \/ \E r \in Req : KbQueryReturn(r)
    \/ \E r \in Req, ok \in BOOLEAN, t \in ChatTexts : ChatModelReturn(r, ok, t)
    \/ \E r \in Req : ScorecardStart(r)
    \/ \E r \in Req, ok \in BOOLEAN, t \in ScorecardTexts : ScorecardReturn(r, ok, t)
    \/ \E r \in Req : AnalyzeStart(r)
    \/ \E r \in Req, ok \in BOOLEAN, t \in AnalyzeTexts : AnalyzeReturn(r, ok, t)
    \/ \E r \in Req : Reset(r)

SpecSession == Init /\ [][NextSession]_vars

\* the analysis alone: a chat opens the conversation, and analyze requests
\* get every text of AnalyzeRawTexts
NextAnalyze ==
    \/ \E r \in Req, m \in KnowledgeChatMessages : ChatStart(r, m)
    \/ \E r \in Req : AnalyzeStart(r)
    \/ \E r \in Req, ok \in BOOLEAN, t \in AnalyzeRawTexts : AnalyzeReturn(r, ok, t)

SpecAnalyze == Init /\ [][NextAnalyze]_vars

\* the archive: save-session and the listing by name
NextArchive ==
    \/ \E r \in Req, b \in SaveBodies : SaveStart(r, b[1], b[2], b[3], b[4])
    \/ \E r \in Req, ok \in BOOLEAN : SaveExec(r, ok)
    \/ \E r \in Req : SaveReturn(r)
    \/ \E r \in Req, n \in ListNames : SessionsStart(r, n)
    \/ \E r \in Req, ok \in BOOLEAN : SessionsExec(r, ok)
    \/ \E r \in Req : SessionsReturn(r)

SpecArchive == Init /\ [][NextArchive]_vars

\* the prompt built from a knowledge base uploaded before the requests:
\* no document, or one or two of PromptDocs in either order
InitPrompt ==
    /\ \E docs \in {<<>>} \cup {<<d>> : d \in PromptDocs}
                   \cup {p \in PromptDocs \X PromptDocs : p[1] # p[2]} :
          store = [i \in 1 .. Len(docs) |->
                      [id |-> i, filename |-> docs[i].filename,
                       content |-> docs[i].content]]
    /\ nextId = Len(store) + 1
    /\ conversationHistory = <<>> /\ knowledgeCache = Null /\ knowledgeCacheTime = 0
    /\ clock = 0 /\ req = [r \in Req |-> IdleReq] /\ turnBy = <<>> /\ nextSid = 1
    /\ storeVer = 0 /\ cachePopulatedAt = 0 /\ lastPop = NoCall /\ prevCall = NoCall
    /\ mutPending = None /\ sessions = <<>> /\ nextSessionId = 1

NextPrompt ==
    \/ \E r \in Req, m \in KnowledgeChatMessages : ChatStart(r, m)
    \/ \E r \in Req : KbQueryExec(r, TRUE)
    \/ \E r \in Req : KbQueryReturn(r)
    \/ \E r \in Req, t \in ChatTexts : ChatModelReturn(r, TRUE, t)

SpecPrompt == InitPrompt /\ [][NextPrompt]_vars

\* the steps in which a collaborator (the database, the model) returns and
\* the handler that awaited it resumes
Returns ==
    \/ \E r \in Req, ok \in BOOLEAN : KbQueryExec(r, ok)
    \/ \E r \in Req : KbQueryReturn(r)
    \/ \E r \in Req, ok \in BOOLEAN, t \in ChatTexts : ChatModelReturn(r, ok, t)
    \/ \E r \in Req, ok \in BOOLEAN, t \in ScorecardTexts : ScorecardReturn(r, ok, t)
    \/ \E r \in Req, ok \in BOOLEAN, t \in AnalyzeTexts : AnalyzeReturn(r, ok, t)
    \/ \E r \in Req, ok \in BOOLEAN : AddExec(r, ok)
    \/ \E r \in Req : AddReturn(r)
    \/ \E r \in Req, ok \in BOOLEAN : DeleteExec(r, ok)
    \/ \E r \in Req : DeleteReturn(r)
    \/ \E r \in Req, ok \in BOOLEAN : ListFilesExec(r, ok)
    \/ \E r \in Req : ListFilesReturn(r)
    \/ \E r \in Req, ok \in BOOLEAN : SaveExec(r, ok)
    \/ \E r \in Req : SaveReturn(r)
    \/ \E r \in Req, ok \in BOOLEAN : SessionsExec(r, ok)
    \/ \E r \in Req : SessionsReturn(r)
    \/ \E r \in Req, ok \in BOOLEAN : ManagerRepsExec(r, ok)
    \/ \E r \in Req : ManagerRepsReturn(r)

\* every endpoint, with a request that fails validation and one that
\* passes it, and every collaborator succeeding or failing
NextResponds ==
    \/ \E r \in Req, m \in {Undefined, Str(<<"a">>)} : ChatStart(r, m)
    \/ \E r \in Req : ScorecardStart(r)
    \/ \E r \in Req : AnalyzeStart(r)
    \/ \E r \in Req : Reset(r)
    \/ \E r \in Req, f \in {Undefined, Str(<<"f">>)} : AddStart(r, f, Str(<<"x">>))
    \/ \E r \in Req : DeleteStart(r, 1)
    \/ \E r \in Req : ListFilesStart(r)
    \/ \E r \in Req, n \in {Undefined, Str(<<"A">>)} :
           SaveStart(r, n, Undefined, Undefined, SavedAnalysis)
    \/ \E r \in Req, n \in {Undefined, Str(<<"a">>)} : SessionsStart(r, n)
    \/ \E r \in Req, p \in Pins, n \in {Undefined, Str(<<"a">>)} :
           ManagerSessionsStart(r, p, n, Undefined)
    \/ \E r \in Req, p \in Pins : ManagerRepsStart(r, p, Undefined)
    \/ Returns

\* a collaborator that was called returns in the end
SpecResponds == Init /\ [][NextResponds]_vars /\ WF_vars(Returns)

\* the conversation endpoints next to save-session
NextPersist ==
    \/ \E r \in Req, m \in KnowledgeChatMessages : ChatStart(r, m)
    \/ \E r \in Req, ok \in BOOLEAN : KbQueryExec(r, ok)
    \/ \E r \in Req : KbQueryReturn(r)
    \/ \E r \in Req, ok \in BOOLEAN, t \in ChatTexts : ChatModelReturn(r, ok, t)
    \/ \E r \in Req : ScorecardStart(r)
    \/ \E r \in Req, ok \in BOOLEAN, t \in ScorecardTexts : ScorecardReturn(r, ok, t)
    \/ \E r \in Req : AnalyzeStart(r)
    \/ \E r \in Req, ok \in BOOLEAN, t \in AnalyzeTexts : AnalyzeReturn(r, ok, t)
    \/ \E r \in Req : Reset(r)
    \/ \E r \in Req : SaveStart(r, Str(<<"A">>), Undefined, Undefined, SavedAnalysis)
    \/ \E r \in Req, ok \in BOOLEAN : SaveExec(r, ok)
    \/ \E r \in Req : SaveReturn(r)

SpecPersist == Init /\ [][NextPersist]_vars

\* every endpoint that reads or writes the sessions, with /reset and the
\* DELETE of /knowledge-file/:id
NextStored ==
    \/ \E r \in Req, n \in {Undefined, Str(<<"A">>), Str(<<"a">>)} :
           SaveStart(r, n, Undefined, Undefined, SavedAnalysis)
    \/ \E r \in Req, ok \in BOOLEAN : SaveExec(r, ok)
    \/ \E r \in Req : SaveReturn(r)
    \/ \E r \in Req, n \in {Undefined, Str(<<"a">>)} : SessionsStart(r, n)
    \/ \E r \in Req : SessionsExec(r, TRUE)
    \/ \E r \in Req : SessionsReturn(r)
    \/ \E r \in Req, p \in Pins : ManagerSessionsStart(r, p, Str(<<"a">>), Undefined)
    \/ \E r \in Req, p \in Pins : ManagerRepsStart(r, p, Undefined)
    \/ \E r \in Req : ManagerRepsExec(r, TRUE)
    \/ \E r \in Req : ManagerRepsReturn(r)
    \/ \E r \in Req : DeleteStart(r, 1)
    \/ \E r \in Req : DeleteExec(r, TRUE)
    \/ \E r \in Req : DeleteReturn(r)
    \/ \E r \in Req : Reset(r)

SpecStored == Init /\ [][NextStored]_vars

\* the listing on a table that is empty or already holds more sessions
\* than one listing returns
InitListing ==
    /\ InitProcess
    /\ sessions \in {<<>>, LongTable}
    /\ nextSessionId = Len(sessions) + 1

NextListing ==
    \/ \E r \in Req, n \in ListingSaves :
           SaveStart(r, n, Undefined, Undefined, SavedAnalysis)
    \/ \E r \in Req : SaveExec(r, TRUE)
    \/ \E r \in Req : SaveReturn(r)
    \/ \E r \in Req, n \in ListingNames : SessionsStart(r, n)
    \/ \E r \in Req : SessionsExec(r, TRUE)
    \/ \E r \in Req : SessionsReturn(r)

SpecListing == InitListing /\ [][NextListing]_vars

\* the aggregate view on a table of up to MaxSessions stored sessions
InitAggregate ==
    /\ InitProcess
    /\ \E kept \in SUBSET (1 .. MaxSessions), aged \in BOOLEAN :
          sessions = SessionsTable(kept, aged)
    /\ nextSessionId = Len(sessions) + 1

NextAggregate ==
    \/ \E r \in Req, d \in DaysQueries : ManagerRepsStart(r, Str(ManagerPin), d)
    \/ \E r \in Req : ManagerRepsExec(r, TRUE)
    \/ \E r \in Req : ManagerRepsReturn(r)

SpecAggregate == InitAggregate /\ [][NextAggregate]_vars

\* the knowledge base alone: the chats that read it (up to the issue of
\* their model call, whose reply touches no knowledge-base state), add,
\* delete and the clock; the database's failures are those of the read
NextKnowledge ==
    \/ \E r \in Req, m \in KnowledgeChatMessages : ChatStart(r, m)
    \/ \E r \in Req, ok \in BOOLEAN : KbQueryExec(r, ok)
    \/ \E r \in Req : KbQueryReturn(r)
    \/ \E r \in Req, a \in KnowledgeAdds : AddStart(r, a[1], a[2])
    \/ \E r \in Req : AddExec(r, TRUE)
    \/ \E r \in Req : AddReturn(r)
    \/ \E r \in Req : DeleteStart(r, 1)
    \/ \E r \in Req : DeleteExec(r, TRUE)
    \/ \E r \in Req : DeleteReturn(r)
    \/ Tick

SpecKnowledge == Init /\ [][NextKnowledge]_vars

\* the uploads: add with every filename and content, delete and the
\* database's failures, and the chats that fill the cache
NextUpload ==
    \/ \E r \in Req, m \in KnowledgeChatMessages : ChatStart(r, m)
    \/ \E r \in Req : KbQueryExec(r, TRUE)
    \/ \E r \in Req : KbQueryReturn(r)
    \/ \E r \in Req, f \in AddFilenames, c \in AddContents : AddStart(r, f, c)
    \/ \E r \in Req, ok \in BOOLEAN : AddExec(r, ok)
    \/ \E r \in Req : AddReturn(r)
    \/ \E r \in Req, id \in DeleteIds : DeleteStart(r, id)
    \/ \E r \in Req, ok \in BOOLEAN : DeleteExec(r, ok)
    \/ \E r \in Req : DeleteReturn(r)

SpecUpload == Init /\ [][NextUpload]_vars

\* ------------------------------------------------------------ the claims
\* absent, empty or whitespace-only
Blank(m) ==
    m.t = "undefined" \/ (m.t = "string" /\ \A i \in 1 .. Len(m.s) : m.s[i] \in {" ", "\n"})

\* the step in which the chat request of slot r arrives with a message
\* that passes validation
ChatAccepted(r) ==
    req[r].pc = "idle" /\ req'[r].kind = "chat" /\ req'[r].pc # "done"

\* the step in which getKnowledgeBase of the chat of slot r stores its rows
KbStored(r) ==
    req[r].kind = "chat" /\ req[r].pc = "kbrows" /\ req'[r].pc = "model"

\* C1: under any interleaving of chat, reset, scorecard and analyze, the
\* history leaves Empty only by the append of a Rep turn, so a non-empty
\* history always starts with a Rep (role user) turn.
C1_HistoryStartsWithRep ==
    conversationHistory # <<>> => conversationHistory[1].role = "user"

\* C2: when a reset ran between a chat's Rep append and the arrival of its
\* reply, then once the chat has completed no Homeowner turn of that chat
\* is in the history later requests read.
C2_ResetDiscardsReply ==
    \A r \in Req :
        (req[r].kind = "chat" /\ req[r].pc = "done" /\ req[r].resets > 0)
        => \A i \in 1 .. Len(conversationHistory) :
               ~(turnBy[i] = r /\ conversationHistory[i].role = "assistant")

\* C3: a chat whose model call succeeded is answered 200 with the reply,
\* never with an error, however many resets ran while it was in flight.
C3_ChatSucceeds ==
    \A r \in Req :
        (req[r].kind = "chat" /\ req[r].modelOk)
        => /\ req[r].resp.status = 200
           /\ DOMAIN req[r].resp.body = {"response"}
           /\ req[r].resp.body.response \in ChatTexts

\* a successful chat that two resets crossed
C3_Witness ==
    \E r \in Req : req[r].kind = "chat" /\ req[r].modelOk /\ req[r].resets >= 2

\* C4: from every state, a reset request leaves the history empty at the
\* moment it completes and answers success.
C4_ResetEmpties ==
    [][\A r \in Req :
          (req[r].pc = "idle" /\ req'[r].kind = "reset")
          => /\ conversationHistory' = <<>>
             /\ req'[r].pc = "done"
             /\ req'[r].resp = [status |-> 200, body |-> [success |-> TRUE]]]_vars

\* a reset has completed while a chat that had pushed its Rep turn was in
\* flight
C4_Witness ==
    \E r, q \in Req :
        /\ req[r].kind = "reset" /\ req[r].pc = "done"
        /\ req[q].kind = "chat" /\ req[q].pc = "model" /\ req[q].resets > 0
        /\ conversationHistory = <<>>

\* C5: a chat whose message is absent, empty or whitespace-only answers
\* 400, leaves the history unchanged, reads no knowledge base and calls no
\* model.
C5_BlankChatRejected ==
    [][\A r \in Req, m \in ChatMessages :
          (Blank(m) /\ ChatStart(r, m))
          => /\ req'[r].resp.status = 400
             /\ req'[r].pc = "done"
             /\ conversationHistory' = conversationHistory
             /\ req'[r].kbReads = 0
             /\ req'[r].modelCalls = 0
             /\ req'[r].call = None
             /\ knowledgeCache' = knowledgeCache]_vars

\* a chat was rejected while the history held turns
C5_Witness ==
    \E r \in Req :
        /\ req[r].kind = "chat" /\ req[r].resp.status = 400
        /\ req[r].kbReads = 0 /\ req[r].modelCalls = 0
        /\ conversationHistory # <<>>

\* C6: for a message that is non-empty after trimming, right after the
\* chat handler appends it the last turn is a Rep turn with that message
\* as content, and the turns before it are unchanged and in order.
C6_AppendRepLast ==
    [][\A r \in Req, m \in ChatMessages :
          (~Blank(m) /\ ChatStart(r, m))
          => /\ Len(conversationHistory') = Len(conversationHistory) + 1
             /\ conversationHistory'[Len(conversationHistory')]
                    = [role |-> "user", content |-> m]
             /\ SubSeq(conversationHistory', 1, Len(conversationHistory))
                    = conversationHistory]_vars

\* a message with a leading space is the last turn, after earlier turns
C6_Witness ==
    /\ Len(conversationHistory) >= 2
    /\ conversationHistory[Len(conversationHistory)]
           = [role |-> "user", content |-> Str(<<" ", "a">>)]

\* C7: scorecard and analyze answer 400 and call no model when the history
\* is empty as they are handled, and every model call they issue embeds
\* the rendering of a non-empty transcript.
C7_ScoringOnlyFromActive ==
    [][\A r \in Req :
          /\ (req[r].pc = "idle" /\ req'[r].kind \in {"scorecard", "analyze"})
             => IF conversationHistory = <<>>
                THEN /\ req'[r].resp.status = 400
                     /\ req'[r].pc = "done"
                     /\ req'[r].modelCalls = 0
                     /\ req'[r].call = None
                ELSE /\ req'[r].pc = "model"
                     /\ req'[r].modelCalls = 1
          /\ (req'[r].kind \in {"scorecard", "analyze"}
                 /\ req'[r].modelCalls > req[r].modelCalls)
             => /\ conversationHistory # <<>>
                /\ req'[r].call.turns > 0
                /\ req'[r].call.conversationText # <<>>
                /\ req'[r].call.conversationText
                       = renderForScoring(conversationHistory)]_vars

\* one scoring request was refused and another holds a model call
C7_Witness ==
    \E r, q \in Req :
        /\ req[r].kind \in {"scorecard", "analyze"} /\ req[r].resp.status = 400
        /\ req[q].kind \in {"scorecard", "analyze"} /\ req[q].pc = "model"
        /\ req[q].call.turns > 0

\* the step ChatAccepted(r) served getKnowledgeBase from the cache
ServedFromCache(r) == req'[r].kbReads = 0 /\ req'[r].files = knowledgeCache

\* the step ChatAccepted(r) issued the storage read of getKnowledgeBase
ReadIssued(r) == req'[r].kbReads = 1 /\ req'[r].pc = "kbquery"

\* C8 as stated: of two getKnowledgeBase calls made within 60 seconds of
\* each other with no add or delete in between, the second returns the
\* snapshot the first returned and reads no storage.
C8_AnyTwoCallsShareSnapshot ==
    [][\A r \in Req :
          (ChatAccepted(r) /\ prevCall # NoCall /\ clock - prevCall.start < TTL)
          => /\ ServedFromCache(r)
             /\ req'[r].files.sid = prevCall.sid]_vars

\* C8 amended: when a getKnowledgeBase call stored the rows it read, and a
\* second call starts less than 60 seconds after the first one started,
\* with no add or delete and no other call storing rows in between, the
\* second call returns that same snapshot and reads no storage.
C8_CallAfterPopulatingCall ==
    [][\A r \in Req :
          (ChatAccepted(r) /\ lastPop # NoCall /\ clock - lastPop.start < TTL)
          => /\ ServedFromCache(r)
             /\ req'[r].files.sid = lastPop.sid]_vars

\* a call was served, later than the populating call started, the snapshot
\* that call stored
C8_Witness ==
    \E r \in Req :
        /\ req[r].kind = "chat" /\ req[r].pc = "model" /\ req[r].kbReads = 0
        /\ lastPop # NoCall /\ req[r].files.sid = lastPop.sid
        /\ clock > lastPop.start /\ clock - lastPop.start < TTL

\* C9 as stated: the first getKnowledgeBase call that starts after an add
\* or delete has completed reads storage, and the snapshot it returns
\* reflects the mutation, whatever other calls were in flight.
C9_FirstCallAfterMutationReads ==
    [][\A r \in Req :
          /\ (ChatAccepted(r) /\ mutPending # None) => ReadIssued(r)
          /\ (KbStored(r) /\ req[r].mustReflect # None)
             => req'[r].files.ver >= req[r].mustReflect.ver]_vars

\* C9 amended: a successful add or delete sets the cache to null as it
\* completes, whatever its age; the first getKnowledgeBase call that starts
\* after that, provided no call already in flight has stored its rows in
\* the cache in between, reads storage, and the snapshot it returns when
\* the read succeeds reflects the mutation.
C9_FirstCallAfterMutationUnraced ==
    [][\A r \in Req :
          /\ (req[r].kind \in {"add", "delete"} /\ req[r].pc = "sqldone"
                 /\ req'[r].resp.status = 200)
             => knowledgeCache' = Null
          /\ (ChatAccepted(r) /\ mutPending # None /\ ~mutPending.raced)
             => ReadIssued(r)
          /\ (KbStored(r) /\ req[r].mustReflect # None)
             => req'[r].files.ver >= req[r].mustReflect.ver]_vars

\* the first call after a completed mutation has read storage and holds a
\* snapshot with the mutation, which is not the first rows ever read
C9_Witness ==
    \E r \in Req :
        /\ req[r].kind = "chat" /\ req[r].pc = "model" /\ req[r].kbReads = 1
        /\ req[r].mustReflect # None /\ ~req[r].mustReflect.raced
        /\ req[r].files.ver >= req[r].mustReflect.ver
        /\ req[r].files.sid >= 2

\* C10: no getKnowledgeBase call returns the cached value when 60 000 ms or
\* more have passed since the cache was populated; such a call reloads
\* from storage, and the rows it stores carry the time of that call.
C10_CacheServedUnderTTL ==
    [][\A r \in Req :
          /\ (ChatAccepted(r) /\ ServedFromCache(r))
             => (knowledgeCache # Null /\ clock - cachePopulatedAt < TTL)
          /\ (ChatAccepted(r) /\ knowledgeCache # Null
                 /\ clock - cachePopulatedAt >= TTL)
             => (ReadIssued(r) /\ req'[r].now = clock)
          /\ KbStored(r)
             => /\ knowledgeCacheTime' = req[r].now
                /\ knowledgeCache'.rows = req[r].db.rows
                /\ req'[r].files = knowledgeCache']_vars

\* a call found a snapshot populated 60 000 ms before and reloaded
C10_Witness ==
    \E r \in Req :
        /\ req[r].kind = "chat" /\ req[r].pc = "model" /\ req[r].kbReads = 1
        /\ req[r].files.sid >= 2
        /\ knowledgeCacheTime = clock /\ knowledgeCacheTime >= TTL
        /\ knowledgeCache = req[r].files

\* C11 as stated: for every record of the analysis structure, also one
\* whose text fields hold braces or backticks, an analyze request whose
\* model answers the record's JSON serialization answers that record.
C11_PlainJsonRoundTrips ==
    [][\A r \in Req, o \in AnalysisRecords :
          AnalyzeReturn(r, TRUE, JSONstringify(o))
          => req'[r].resp = Ok([analysis |-> o])]_vars

\* C12 as stated: for every record and each of the three shapes (the plain
\* object, the object in a fenced block with or without the json tag,
\* either of them with prose before and/or after), the analyze request
\* answers the record.
C12_ThreeShapesRecovered ==
    [][\A r \in Req, o \in AnalysisRecords, t \in AnalyzeRawTexts :
          (t \in ShapesOf(o) /\ AnalyzeReturn(r, TRUE, t))
          => req'[r].resp = Ok([analysis |-> o])]_vars

\* C13: when the model's text holds no JSON (plain prose, prose in a fenced
\* block, prose between braces, an object that never closes), so that the
\* fence and brace steps leave a text JSON.parse rejects, the analyze
\* request answers 500 with an error body and no analysis, and the sessions
\* table, the knowledge table and the conversation are as before.
C13_UnparsableAnswers500 ==
    [][\A r \in Req, t \in Garbled :
          AnalyzeReturn(r, TRUE, t)
          => /\ req'[r].resp.status = 500
             /\ DOMAIN req'[r].resp.body = {"error"}
             /\ req'[r].pc = "done"
             /\ sessions' = sessions
             /\ store' = store
             /\ conversationHistory' = conversationHistory]_vars

\* an analyze request answered 500 for the text, while another one
\* answered an analysis
C13_Witness ==
    \E r, q \in Req :
        /\ req[r].kind = "analyze" /\ req[r].modelOk /\ req[r].resp.status = 500
        /\ req[q].kind = "analyze" /\ req[q].resp.status = 200
        /\ sessions = <<>> /\ Len(conversationHistory) = 1

\* C14 as stated: an add whose filename or content is absent, empty or
\* whitespace-only is rejected, so every stored document has a non-empty
\* filename and a non-empty content.
C14_StoredDocumentsNonEmpty ==
    \A i \in 1 .. Len(store) : store[i].filename # <<>> /\ store[i].content # <<>>

\* the step in which the database runs the DELETE of slot r
DeleteRan(r) ==
    req[r].kind = "delete" /\ req[r].pc = "sql" /\ req'[r].pc = "sqldone" /\ req'[r].db.ok

\* C16: a DELETE that runs leaves exactly the rows with another id, in
\* their order: the table is unchanged when no row has the id, and has no
\* row with the id afterwards, so that running it again changes nothing;
\* the request then answers success and sets the cache to null.
C16_DeleteIdempotent ==
    [][\A r \in Req :
          /\ DeleteRan(r)
             => LET Other(row) == row.id # req[r].arg.id
                IN /\ store' = SelectSeq(store, Other)
                   /\ (\A i \in 1 .. Len(store) : Other(store[i])) => store' = store
                   /\ \A i \in 1 .. Len(store') : Other(store'[i])
          /\ (req[r].kind = "delete" /\ req[r].pc = "sqldone" /\ req[r].db.ok
                 /\ req'[r].pc = "done")
             => /\ req'[r].resp = Ok([success |-> TRUE])
                /\ knowledgeCache' = Null]_vars

\* a document was added, and two deletes of its id both answered success
C16_Witness ==
    \E r, q \in Req :
        /\ r # q /\ nextId = 2 /\ store = <<>>
        /\ req[r].kind = "delete" /\ req[r].resp.status = 200
        /\ req[q].kind = "delete" /\ req[q].resp.status = 200

\* the string t is the string s without its leading and trailing whitespace
IsTrimOf(t, s) ==
    \E i, j \in 0 .. Len(s) :
        /\ t = SubSeq(s, i + 1, j)
        /\ \A k \in 1 .. i : s[k] \in {" ", "\n"}
        /\ \A k \in j + 1 .. Len(s) : s[k] \in {" ", "\n"}
        /\ t # <<>> => (t[1] \notin {" ", "\n"} /\ t[Len(t)] \notin {" ", "\n"})

\* the step in which the database runs the INSERT of the save of slot r
SaveRan(r) ==
    req[r].kind = "save" /\ req[r].pc = "sql" /\ req'[r].pc = "sqldone"

\* C15 as stated: every save-session request that passed validation has
\* stored exactly one session once its INSERT has run, so the sessions are
\* as many as those requests.
C15_EveryValidSaveStores ==
    Len(sessions) =
        Cardinality({r \in Req : /\ req[r].kind = "save"
                                 /\ \/ req[r].pc = "sqldone"
                                    \/ req[r].pc = "done" /\ req[r].resp.status # 400})

\* C15, amended: a save-session request with an empty or absent repName, or
\* an absent analysis, answers 400 and stores nothing; any other request
\* stores, when its INSERT succeeds, exactly one session with the trimmed
\* repName, the given analysis, and duration and rep message count 0 when
\* absent, and answers success; when its INSERT fails it stores nothing and
\* answers 500.
C15_SaveValidatesAndStores ==
    [][/\ \A r \in Req, b \in SaveBodies :
             SaveStart(r, b[1], b[2], b[3], b[4])
             => /\ sessions' = sessions
                /\ IF b[1] \in {Undefined, Str(<<>>)} \/ b[4] \in {Undefined, Null}
                   THEN req'[r].pc = "done" /\ req'[r].resp.status = 400
                   ELSE /\ req'[r].pc = "sql"
                        /\ IsTrimOf(req'[r].arg.rep_name, b[1].s)
                        /\ JSONparse(req'[r].arg.analysis) = [ok |-> TRUE, val |-> b[4]]
                        /\ req'[r].arg.duration =
                              IF b[2] \in {Undefined, Null} THEN Num(0) ELSE b[2]
                        /\ req'[r].arg.rep_messages =
                              IF b[3] \in {Undefined, Null} THEN Num(0) ELSE b[3]
       /\ \A r \in Req :
             SaveRan(r)
             => IF req'[r].db.ok
                THEN /\ Len(sessions') = Len(sessions) + 1
                     /\ SubSeq(sessions', 1, Len(sessions)) = sessions
                     /\ LET row == sessions'[Len(sessions')]
                        IN /\ row.rep_name = req[r].arg.rep_name
                           /\ row.analysis = SavedAnalysis
                           /\ row.duration = req[r].arg.duration
                           /\ row.rep_messages = req[r].arg.rep_messages
                ELSE sessions' = sessions
       /\ \A r \in Req :
             (req[r].kind = "save" /\ req[r].pc = "sqldone" /\ req'[r].pc = "done")
             => /\ sessions' = sessions
                /\ req'[r].resp = IF req[r].db.ok THEN Ok([success |-> TRUE])
                                  ELSE Err(500, "storage")]_vars

\* a request without repName was rejected, a request named " a " with a
\* duration and a request with neither duration nor message count were
\* stored
C15_Witness ==
    \E r \in Req :
        /\ req[r].kind = "save" /\ req[r].resp.status = 400
        /\ Len(sessions) = 2
        /\ \E i, j \in 1 .. 2 :
              /\ sessions[i].rep_name = <<"a">> /\ sessions[i].duration = Num(5)
              /\ sessions[j].duration = Num(0) /\ sessions[j].rep_messages = Num(0)
              /\ sessions[j].analysis = SavedAnalysis

\* the strings a and b are equal ignoring letter case
SameIgnoringCase(a, b) ==
    /\ Len(a) = Len(b)
    /\ \A i \in 1 .. Len(a) :
          a[i] = b[i] \/ {a[i], b[i]} \in {{"a", "A"}, {"b", "B"}}

\* the step in which the database runs the SELECT of the listing of slot r
ListingRan(r) ==
    /\ req[r].kind = "sessions" /\ req[r].pc = "sql"
    /\ req'[r].pc = "sqldone" /\ req'[r].db.ok

\* C17 as stated: a listing for a name m whose trimmed form equals,
\* ignoring letter case, the trimmed name a stored session was saved under
\* queries the sessions of that name, and so returns that session.
C17_EqualTrimmedNamesListed ==
    [][\A r \in Req, m \in ListNames :
          (/\ m.t = "string"
           /\ SessionsStart(r, m)
           /\ \E i \in 1 .. Len(sessions), j, k \in 0 .. Len(m.s) :
                 /\ IsTrimOf(SubSeq(m.s, j + 1, k), m.s)
                 /\ SameIgnoringCase(sessions[i].rep_name, SubSeq(m.s, j + 1, k)))
          => req'[r].pc = "sql"]_vars

\* C17, amended: the stored name of a session is the trimmed repName it was
\* saved under; a listing for a non-empty name m whose query succeeds
\* returns exactly the sessions whose stored name equals trim(m) ignoring
\* letter case, newest first, and of those only the 100 newest; a listing
\* for an empty or absent name answers 400.
C17_ListingByTrimmedName ==
    [][/\ \A r \in Req, n \in ListingSaves :
             (req[r].pc = "idle" /\ req'[r].kind = "save"
              /\ SaveStart(r, n, Undefined, Undefined, SavedAnalysis))
             => IsTrimOf(req'[r].arg.rep_name, n.s)
       /\ \A r \in Req :
             (SaveRan(r) /\ req'[r].db.ok)
             => sessions' = Append(sessions, sessions'[Len(sessions')])
                /\ sessions'[Len(sessions')].rep_name = req[r].arg.rep_name
                /\ \A i \in 1 .. Len(sessions) :
                      sessions[i].id < sessions'[Len(sessions')].id
       /\ \A r \in Req, m \in ListNames :
             (req[r].pc = "idle" /\ req'[r].kind = "sessions" /\ SessionsStart(r, m))
             => IF m \in {Undefined, Str(<<>>)}
                THEN req'[r].pc = "done" /\ req'[r].resp.status = 400
                ELSE req'[r].pc = "sql" /\ IsTrimOf(req'[r].arg.name, m.s)
       /\ \A r \in Req :
             ListingRan(r)
             => LET rows == req'[r].db.rows
                    matching == {i \in 1 .. Len(sessions) :
                                   SameIgnoringCase(sessions[i].rep_name,
                                                    req[r].arg.name)}
                    listed == {i \in matching :
                                 \E k \in 1 .. Len(rows) : rows[k].id = sessions[i].id}
                IN /\ \A k \in 1 .. Len(rows) :
                         \E i \in matching : rows[k] = sessions[i]
                   /\ \A k \in 1 .. Len(rows) - 1 : rows[k].id > rows[k + 1].id
                   /\ Len(rows) = IF Cardinality(matching) < 100
                                  THEN Cardinality(matching) ELSE 100
                   /\ \A i \in matching \ listed, j \in listed :
                         sessions[i].id < sessions[j].id
       /\ \A r \in Req :
             (/\ req[r].kind = "sessions" /\ req[r].pc = "sqldone"
              /\ req[r].db.ok /\ req'[r].pc = "done")
             => /\ req'[r].resp.status = 200
                /\ Len(req'[r].resp.body.sessions) = Len(req[r].db.rows)
                /\ \A k \in 1 .. Len(req[r].db.rows) :
                      LET row == req[r].db.rows[k]
                          out == req'[r].resp.body.sessions[k]
                      IN /\ out.id = row.id /\ out.analysis = row.analysis
                         /\ out.duration = row.duration
                         /\ out.repMessages = row.rep_messages]_vars

\* a session saved as " a " after 101 sessions of "A" comes first in a
\* listing for "A " that returns 100 sessions and leaves out the two oldest,
\* and a listing for "AB" returns none
C17_Witness ==
    \E r, q \in Req :
        /\ req[r].kind = "sessions" /\ req[r].resp.status = 200
        /\ Len(req[r].resp.body.sessions) = 100
        /\ req[r].resp.body.sessions[1].id = 102
        /\ req[r].resp.body.sessions[100].id = 3
        /\ sessions[102].rep_name = <<"a">>
        /\ req[q].kind = "sessions" /\ req[q].resp.status = 200
        /\ req[q].resp.body.sessions = <<>>

\* the sum of a sequence of integers
RECURSIVE Total(_)
Total(s) == IF s = <<>> THEN 0 ELSE s[1] + Total(Tail(s))

\* t is the integer nearest to num / den (den > 0), a half going up
IsRounded(t, num, den) ==
    2 * den * t <= 2 * num + den /\ 2 * num + den < 2 * den * (t + 1)

\* the analyses of the stored sessions with the indices of S, newest first
RECURSIVE NewestFirst(_)
NewestFirst(S) ==
    IF S = {} THEN <<>>
    ELSE LET last == CHOOSE i \in S : \A j \in S : j <= i
         IN <<sessions[last].analysis>> \o NewestFirst(S \ {last})

\* the indices of the stored sessions of rep name inside the window of days
SessionsOfRep(name, days) ==
    {i \in 1 .. Len(sessions) :
        /\ sessions[i].rep_name = name
        /\ days # Null => sessions[i].created_at >= clock - days.v * 86400000}

\* the step in which the database runs the grouped query of slot r
GroupedQueryRan(r) ==
    /\ req[r].kind = "managerReps" /\ req[r].pc = "sql"
    /\ req'[r].pc = "sqldone" /\ req'[r].db.ok

\* each rep with a session in the window has one row of the grouped query,
\* with its analyses newest first
RowsAreRepsOfTable(r) ==
    LET rows == req'[r].db.rows
        days == req[r].arg.days
    IN /\ \A i \in 1 .. Len(sessions) :
             SessionsOfRep(sessions[i].rep_name, days) # {}
             => Cardinality({k \in 1 .. Len(rows) :
                               rows[k].rep_name = sessions[i].rep_name}) = 1
       /\ \A k \in 1 .. Len(rows) :
             /\ SessionsOfRep(rows[k].rep_name, days) # {}
             /\ rows[k].all_analyses = NewestFirst(SessionsOfRep(rows[k].rep_name, days))
             /\ rows[k].session_count = Cardinality(SessionsOfRep(rows[k].rep_name, days))

\* the step in which the handler of slot r answers from the rows of its
\* grouped query
AggregateAnswered(r) ==
    /\ req[r].kind = "managerReps" /\ req[r].pc = "sqldone"
    /\ req[r].db.ok /\ req'[r].pc = "done"

\* the values of property key of value o (none unless o is an object)
Field(o, key) ==
    IF o.t = "obj"
    THEN {o.members[i][2] : i \in {j \in 1 .. Len(o.members) : o.members[j][1] = key}}
    ELSE {}

\* the numbers found at breakdown[category].score of analysis a
ScoresIn(a, category) ==
    {v.v : v \in {w \in UNION {Field(c, Key.score) :
                                  c \in UNION {Field(b, category) :
                                                 b \in Field(a, Key.breakdown)}} :
                     w.t = "num"}}

\* C18: for every rep of the aggregate view the improvement trend is null
\* exactly when the rep has fewer than 4 sessions in the window; with
\* n >= 4 sessions and newest-first overall scores s it is the rounding of
\* mean(first floor(n/2) scores) - mean(last floor(n/2) scores), and for
\* odd n the middle score is in neither half.
C18_TrendOfHalves ==
    [][\A r \in Req :
          /\ GroupedQueryRan(r) => RowsAreRepsOfTable(r)
          /\ AggregateAnswered(r)
             => LET rows == req[r].db.rows
                    reps == req'[r].resp.body.reps
                IN /\ Len(reps) = Len(rows)
                   /\ \A i \in 1 .. Len(rows) :
                         LET s == [k \in 1 .. Len(rows[i].all_analyses) |->
                                      Get(rows[i].all_analyses[k], Key.overall).v]
                             n == Len(s)
                             h == n \div 2
                             trend == reps[i].improvement
                         IN /\ reps[i].name = rows[i].rep_name
                            /\ trend = Null <=> n < 4
                            /\ n >= 4
                               => /\ trend.t = "num"
                                  /\ IsRounded(trend.v,
                                               Total(SubSeq(s, 1, h))
                                               - Total(SubSeq(s, n - h + 1, n)), h)]_vars

\* rep A has the overall scores 90, 85, 60, 55 (newest first) and the
\* trend 30, rep B has one session and no trend
C18_Witness ==
    \E r \in Req :
        /\ req[r].kind = "managerReps" /\ req[r].pc = "done"
        /\ req[r].resp.status = 200
        /\ \E i, j \in 1 .. Len(req[r].resp.body.reps) :
              LET reps == req[r].resp.body.reps
              IN /\ reps[i].name = <<"A">> /\ reps[i].sessionCount = 4
                 /\ reps[i].latestScore = 90
                 /\ reps[i].improvement = Num(30)
                 /\ reps[j].name = <<"B">> /\ reps[j].sessionCount = 1
                 /\ reps[j].improvement = Null

\* C19: in the aggregate view each of the six category averages of a rep
\* is the rounded mean of breakdown[category].score over exactly those of
\* the rep's sessions where it is present and non-null, and null when no
\* session has it; sessions without breakdown or without a category do not
\* abort the aggregation (it answers 200) and leave the other categories'
\* values as they are.
C19_CategoryAverages ==
    [][\A r \in Req :
          /\ GroupedQueryRan(r)
             => \A k \in 1 .. Len(req'[r].db.rows) :
                   req'[r].db.rows[k].all_analyses =
                       NewestFirst(SessionsOfRep(req'[r].db.rows[k].rep_name,
                                                 req[r].arg.days))
          /\ AggregateAnswered(r)
             => LET rows == req[r].db.rows
                    reps == req'[r].resp.body.reps
                IN /\ req'[r].resp.status = 200
                   /\ Len(reps) = Len(rows)
                   /\ \A i \in 1 .. Len(rows), c \in 1 .. 6 :
                         LET all == rows[i].all_analyses
                             has == {k \in 1 .. Len(all) : ScoresIn(all[k], catKeys[c]) # {}}
                             sum == Total([k \in 1 .. Len(all) |->
                                            IF k \in has
                                            THEN CHOOSE v \in ScoresIn(all[k], catKeys[c]) : TRUE
                                            ELSE 0])
                             avg == reps[i].catAvgs[c]
                         IN IF has = {} THEN avg = Null
                            ELSE /\ avg.t = "num"
                                 /\ IsRounded(avg.v, sum, Cardinality(has))]_vars

\* rep A has four sessions, one without breakdown and one with a null
\* opening score and a null closing: opening averages 78 (80 and 75),
\* closing 71, the other categories null
C19_Witness ==
    \E r \in Req :
        /\ req[r].kind = "managerReps" /\ req[r].pc = "done"
        /\ req[r].resp.status = 200
        /\ \E i \in 1 .. Len(req[r].resp.body.reps) :
              LET rep == req[r].resp.body.reps[i]
              IN /\ rep.name = <<"A">> /\ rep.sessionCount = 4
                 /\ rep.catAvgs = <<Num(78), Null, Null, Null, Null, Num(71)>>

\* C20: across any sequence of requests a stored session is never
\* modified or removed, and the stored sessions change only by a
\* save-session whose INSERT succeeds, which adds one new record after the
\* existing ones.
C20_SessionsImmutable ==
    [][\/ sessions' = sessions
       \/ /\ \E r \in Req : SaveRan(r) /\ req'[r].db.ok
          /\ Len(sessions') = Len(sessions) + 1
          /\ \A i \in 1 .. Len(sessions) : sessions'[i] = sessions[i]
          /\ \A i \in 1 .. Len(sessions) :
                sessions'[i].id # sessions'[Len(sessions')].id]_vars

\* two sessions are stored, the second saved after the first, and a
\* listing and the aggregate view have read them since
C20_Witness ==
    /\ Len(sessions) = 2
    /\ sessions[1].id = 1 /\ sessions[2].id = 2
    /\ \E r \in Req :
          /\ req[r].kind \in {"sessions", "managerSessions", "managerReps"}
          /\ req[r].pc = "done" /\ req[r].resp.status = 200
          /\ \/ /\ req[r].kind = "managerReps"
                /\ req[r].resp.body.reps[1].sessionCount = 2
             \/ /\ req[r].kind # "managerReps"
                /\ Len(req[r].resp.body.sessions) = 2

\* C21: every step of a chat, scorecard, analyze or reset request, on
\* success and on failure, leaves the stored sessions unchanged; the stored
\* sessions change only by the INSERT of a save-session request, which adds
\* one record.
C21_NoAutomaticPersistence ==
    [][/\ \A r \in Req :
             (/\ req'[r] # req[r]
              /\ req'[r].kind \in {"chat", "scorecard", "analyze", "reset"})
             => sessions' = sessions /\ nextSessionId' = nextSessionId
       /\ sessions' # sessions
          => /\ \E r \in Req :
                   /\ SaveRan(r)
                   /\ sessions'[Len(sessions')].rep_name = req[r].arg.rep_name
             /\ Len(sessions') = Len(sessions) + 1
             /\ SubSeq(sessions', 1, Len(sessions)) = sessions]_vars

\* a chat and an analysis have been answered 200, a reset has run, and no
\* session is stored
C21_Witness ==
    /\ sessions = <<>>
    /\ \E r, q, p \in Req :
          /\ req[r].kind = "chat" /\ req[r].resp.status = 200
          /\ req[q].kind = "analyze" /\ req[q].resp.status = 200
          /\ req[p].kind = "reset" /\ req[p].pc = "done"

\* the request of slot r has its response: a success body, or an error
\* body with status 400, 401 or 500
Responded(r) ==
    /\ req[r].pc = "done"
    /\ \/ req[r].resp.status = 200
       \/ /\ req[r].resp.status \in {400, 401, 500}
          /\ DOMAIN req[r].resp.body = {"error"}

\* C22: every request to every endpoint, whether its collaborators succeed
\* or fail and provided they return, eventually receives a response, a
\* success body or an error body with status 400, 401 or 500; the response
\* is sent in the step that ends the request, is the only one, and no
\* request is left without one.
C22_ExactlyOneResponse ==
    /\ \A r \in Req : [](req[r].pc # "idle" => <>Responded(r))
    /\ [](\A r \in Req : req[r].resp # NoResp <=> req[r].pc = "done")
    /\ [][\A r \in Req : req[r].pc = "done"
            => req'[r].pc = "done" /\ req'[r].resp = req[r].resp]_vars

\* a chat whose model call failed, a save whose INSERT failed and a manager
\* request with a wrong PIN all have their error response
C22_Witness ==
    \E r, q, p \in Req :
        /\ req[r].kind = "chat" /\ req[r].modelCalls = 1 /\ Responded(r)
        /\ req[r].resp.status = 500
        /\ req[q].kind = "save" /\ Responded(q) /\ req[q].resp.status = 500
        /\ req[p].kind = "managerReps" /\ Responded(p) /\ req[p].resp.status = 401

\* the step in which the chat of slot r issues its model call
ModelCallIssued(r) ==
    req'[r].kind = "chat" /\ req[r].pc # "model" /\ req'[r].pc = "model"

\* from position pos to its end, system holds the documents i, i + 1, ...
\* of files: for each its header line and the first 3000 characters of its
\* content (all of it when shorter), with an empty line between documents
RECURSIVE DocsFrom(_, _, _, _)
DocsFrom(system, pos, files, i) ==
    LET name == files[i].filename
        content == files[i].content
        n == IF Len(content) < 3000 THEN Len(content) ELSE 3000
        body == pos + Len(name) + 2
    IN /\ Len(system) >= body + n
       /\ system[pos] = "--- "
       /\ \A k \in 1 .. Len(name) : system[pos + k] = name[k]
       /\ system[body - 1] = " ---" /\ system[body] = "\n"
       /\ \A k \in 1 .. n : system[body + k] = content[k]
       /\ IF i = Len(files) THEN Len(system) = body + n
          ELSE /\ Len(system) > body + n + 1
               /\ system[body + n + 1] = "\n\n"
               /\ DocsFrom(system, body + n + 2, files, i + 1)

\* C23: the snapshot read from storage holds the documents in upload
\* order; the system prompt of a model call built from a snapshot holds,
\* after the base script and the materials header, each document of the
\* snapshot in that order with exactly the first 3000 characters of its
\* content (its whole content when shorter), and no error is raised; with
\* an empty snapshot the prompt is the base script alone.
C23_PromptSlicesDocuments ==
    [][\A r \in Req :
          /\ (req[r].kind = "chat" /\ req[r].pc = "kbquery" /\ req'[r].pc = "kbrows")
             => /\ Len(req'[r].db.rows) = Len(store)
                /\ \A i \in 1 .. Len(store) :
                      /\ req'[r].db.rows[i].filename = store[i].filename
                      /\ req'[r].db.rows[i].content = store[i].content
                      /\ \A j \in 1 .. i - 1 : store[j].id < store[i].id
          /\ (req[r].kind = "chat" /\ req[r].pc = "kbrows" /\ req'[r].pc # "kbrows")
             => req'[r].pc = "model" /\ req'[r].files.rows = req[r].db.rows
          /\ ModelCallIssued(r)
             => LET files == req'[r].files.rows
                    system == req'[r].call.system
                IN IF files = <<>> THEN system = <<"BASE_SYSTEM_PROMPT">>
                   ELSE /\ Len(system) > 4
                        /\ SubSeq(system, 1, 4) =
                              <<"BASE_SYSTEM_PROMPT", "\n\n", "[TRAINING MATERIALS]", "\n">>
                        /\ DocsFrom(system, 5, files, 1)]_vars

\* a model call was issued with the prompt built from the document of 5000
\* characters followed by the one of 2: 3000 and 2 characters of content
C23_Witness ==
    \E r \in Req :
        /\ req[r].kind = "chat" /\ req[r].pc = "model"
        /\ Len(req[r].files.rows) = 2
        /\ Len(req[r].files.rows[1].content) = 5000
        /\ Len(req[r].files.rows[2].content) = 2
        /\ Len(req[r].call.system) = 4 + (4 + 3000) + 1 + (4 + 2)
        /\ req[r].call.system[3008] = req[r].files.rows[1].content[3000]
        /\ req[r].call.system[3009] = "\n\n"

\* the candidate text of extractAnalysis: the fence interior, else the
\* full trimmed text
Candidate(text) ==
    LET raw == trim(text)
        jsonMatch == FenceMatch(raw)
    IN IF jsonMatch.ok THEN jsonMatch.group ELSE raw

\* C24 as stated: the brace extraction is a fallback only, so for every
\* text of the model whose candidate (fence interior, else the full trimmed
\* text) is valid JSON as a whole, the analyze request answers the parse of
\* the whole candidate.
C24_WholeCandidateParsedFirst ==
    [][\A r \in Req, t \in AnalyzeRawTexts :
          (AnalyzeReturn(r, TRUE, t) /\ JSONparse(Candidate(t)).ok)
          => req'[r].resp = Ok([analysis |-> JSONparse(Candidate(t)).val])]_vars

\* the step in which chat request r fails: its model call rejects, or the
\* query of the prompt build rejected before any model call
ChatFails(r) ==
    \/ ChatModelReturn(r, FALSE, Str(<<"r">>))
    \/ req[r].kind = "chat" /\ req[r].pc = "kbrows" /\ ~req[r].db.ok /\ KbQueryReturn(r)

\* C25: a chat request issues at most one model call and never issues it
\* again; in the step where its model call or the prompt build before it
\* fails it answers 500 with an error body, the history is left as it is
\* (no Homeowner turn, no rollback), and unless a reset emptied the history
\* in the meantime the one turn this request appended, its Rep turn, is in
\* the history.
C25_OneCallNoRollback ==
    [][\A r \in Req :
          /\ req'[r].modelCalls <= 1
          /\ req'[r].modelCalls >= req[r].modelCalls
          /\ req[r].pc = "done" => req'[r].pc = "done" /\ req'[r].call = None
          /\ ChatFails(r)
             => /\ req'[r].pc = "done"
                /\ req'[r].resp.status = 500
                /\ DOMAIN req'[r].resp.body = {"error"}
                /\ conversationHistory' = conversationHistory
                /\ req[r].resets = 0
                   => \E i \in 1 .. Len(conversationHistory') :
                         /\ turnBy'[i] = r
                         /\ conversationHistory'[i].role = "user"
                         /\ \A j \in 1 .. Len(conversationHistory') :
                               turnBy'[j] = r => j = i]_vars

\* one chat answered 500 after its single model call, another answered 500
\* without a model call; the Rep turns of both are the history
C25_Witness ==
    \E r, q \in Req :
        /\ req[r].kind = "chat" /\ req[r].pc = "done" /\ req[r].resp.status = 500
        /\ req[r].modelCalls = 1 /\ req[r].resets = 0
        /\ req[q].kind = "chat" /\ req[q].pc = "done" /\ req[q].resp.status = 500
        /\ req[q].modelCalls = 0 /\ req[q].resets = 0
        /\ turnBy \in {<<r, q>>, <<q, r>>}
        /\ \A i \in 1 .. 2 : conversationHistory[i].role = "user"

\* a chat request arrived while another was in flight, or a reset ran while
\* one was
Overlap == \E r \in Req : req[r].overlapped \/ req[r].resets > 0

\* a model call of a chat, scorecard or analyze request rejected
ModelCallFailed ==
    \E r \in Req : req[r].pc = "done" /\ req[r].modelCalls = 1 /\ ~req[r].modelOk

\* the knowledge-base read of a chat request rejected
ReadFailed ==
    \E r \in Req : /\ req[r].kind = "chat" /\ req[r].pc = "done"
                    /\ req[r].modelCalls = 0 /\ req[r].resp.status = 500

\* Rep, Homeowner, Rep, Homeowner, ... starting with Rep
Alternates ==
    \A i \in 1 .. Len(conversationHistory) :
        conversationHistory[i].role = IF i % 2 = 1 THEN "user" ELSE "assistant"

\* C26 as stated: in every execution where chat requests overlap neither
\* each other nor a reset and every model call succeeds, the history
\* alternates Rep, Homeowner, ... starting with Rep at all times.
C26_AlternatesWhenCallsSucceed ==
    (~Overlap /\ ~ModelCallFailed) => Alternates

\* C26, amended: in every execution where chat requests overlap neither
\* each other nor a reset, every model call succeeds and every
\* knowledge-base read of a chat succeeds, the history alternates Rep,
\* Homeowner, ... starting with Rep at all times, after any number of chats
\* and resets.
C26_AlternatesWhenNothingFails ==
    (~Overlap /\ ~ModelCallFailed /\ ~ReadFailed) => Alternates

\* a chat answered, a reset, and a second chat answered, none overlapping
\* and nothing failing: the history is the Rep turn and the reply of the
\* second chat
C26_Witness ==
    /\ ~Overlap /\ ~ModelCallFailed /\ ~ReadFailed
    /\ req[1].kind = "chat" /\ req[1].resp.status = 200
    /\ req[2].kind = "reset" /\ req[2].pc = "done"
    /\ req[3].kind = "chat" /\ req[3].resp.status = 200
    /\ Len(conversationHistory) = 2 /\ Alternates

\* C28 as stated: the turn list a chat request hands to the model ends with
\* the Rep turn this request appended; no other request appended a turn or
\* emptied the history between the push and the model call.
C28_CallEndsWithOwnRepTurn ==
    [][\A r \in Req :
          ModelCallIssued(r)
          => LET m == req'[r].call.messages
             IN /\ m # <<>>
                /\ m[Len(m)].role = "user"
                /\ m = conversationHistory'
                /\ turnBy'[Len(m)] = r]_vars

\* C29: every step of a scorecard or analyze request (its rejection, the
\* issue of its model call, the answer, the failure of the call or of the
\* parse) leaves the conversation history, the knowledge cache and the
\* cache timestamp as they were.
C29_ScoringIsReadOnly ==
    [][\A r \in Req :
          (req'[r] # req[r] /\ req'[r].kind \in {"scorecard", "analyze"})
          => /\ conversationHistory' = conversationHistory
             /\ knowledgeCache' = knowledgeCache
             /\ knowledgeCacheTime' = knowledgeCacheTime]_vars

\* after a chat that filled the cache, a scorecard whose model call failed
\* and an analysis that was answered: the two turns of the chat are the
\* history and the cache is the one the chat stored
C29_Witness ==
    \E r, q, p \in Req :
        /\ req[r].kind = "chat" /\ req[r].resp.status = 200
        /\ req[q].kind = "scorecard" /\ req[q].resp.status = 500
        /\ req[p].kind = "analyze" /\ req[p].resp.status = 200
        /\ turnBy = <<r, r>>
        /\ knowledgeCache # Null /\ cachePopulatedAt = knowledgeCacheTime

\* C30 as stated: for every row of the grouped query of /manager/reps, its
\* session count equals the number of sessions the per-rep listing of
\* /manager/sessions returns for that row's name and the same window, as
\* long as that number is below the cap of the listing.
C30_AggregateAgreesWithListing ==
    [][\A r \in Req :
          GroupedQueryRan(r)
          => \A k \in 1 .. Len(req'[r].db.rows) :
                LET row == req'[r].db.rows[k]
                    listed == SelectByRep(sessions, row.rep_name, clock,
                                          req[r].arg.days)
                IN Len(listed) < ListLimit => row.session_count = Len(listed)]_vars

\* the step in which the database runs the SELECT of getKnowledgeBase for
\* slot r
KbQueryRan(r) ==
    req[r].kind = "chat" /\ req[r].pc = "kbquery" /\ req'[r].pc = "kbrows" /\ req'[r].db.ok

\* C27: the rows a getKnowledgeBase call stores are the stored documents at
\* the instant its SELECT ran, and whenever a later call returns a
\* snapshot from the cache, that instant is less than 60 seconds before
\* the return, whatever reads, adds and deletes were interleaved.
C27_CachedSnapshotYoungerThanTTL ==
    [][\A r \in Req :
          /\ KbQueryRan(r)
             => /\ req'[r].db.rows = SelectForPrompt(store)
                /\ req'[r].db.readAt = clock
          /\ KbStored(r)
             => /\ knowledgeCache'.rows = req[r].db.rows
                /\ knowledgeCache'.readAt = req[r].db.readAt
          /\ (ChatAccepted(r) /\ ServedFromCache(r))
             => /\ req'[r].files.readAt <= clock
                /\ clock - req'[r].files.readAt < TTL]_vars

\* a chat served from the cache a snapshot read before the last write to
\* the table, half a TTL after it was read
C27_Witness ==
    \E r \in Req :
        /\ req[r].kind = "chat" /\ req[r].pc = "model" /\ req[r].kbReads = 0
        /\ req[r].files.ver < storeVer
        /\ req[r].files.rows # SelectForPrompt(store)
        /\ clock - req[r].files.readAt = TickMs

====
